---------------------------- MODULE Spec2Model ----------------------------
(***************************************************************************)
(* Submission & Engagement Core of the holiday-lights backend.             *)
(*                                                                         *)
(* The document store is modelled as it is used: a table is a function     *)
(* from the keys that exist to items, an item is a function from the       *)
(* attribute names that exist to values.  Every store call (get_item,      *)
(* put_item, update_item, delete_item, query) is one atomic step; a        *)
(* handler is a sequence of such steps, and handlers interleave freely.    *)
(***************************************************************************)
EXTENDS Integers, Sequences, FiniteSets, TLC

VARIABLES
    locations,      \* Locations table: location id -> item
    routes,         \* Routes table: route id -> item
    feedback,       \* Feedback table: <<feedback id, location id>> -> item
    routeFeedback,  \* Route feedback table: <<feedback id, route id>> -> item
    call,           \* the last Counter Store call and how it ended
    ncalls,         \* number of direct Counter Store calls made so far
    req,            \* toggle requests: request slot -> handler state
    suggestions,    \* Suggestions table: suggestion id -> item
    bucket,         \* photos bucket: the set of object keys that exist
    mod,            \* moderation requests: request slot -> handler state
    faults,         \* number of store calls that have raised ClientError
    sub,            \* submit requests: request slot -> handler state
    chk,            \* the check-duplicate request: handler state
    invoked,        \* analysis events in flight: photo key -> how many
    ana             \* photo analysis invocations: slot -> handler state

vars == <<locations, routes, feedback, routeFeedback, call, ncalls, req,
          suggestions, bucket, mod, faults, sub, chk, invoked, ana>>

----------------------------------------------------------------------------
(* Bounds of the model *)

MaxCalls == 4
MaxReq == 3
MaxMod == 2
MaxFaults == 2
MaxSub == 2
MaxAna == 2
MaxShuffled == 4

----------------------------------------------------------------------------
(* Items and tables *)

EmptyTable == [k \in {} |-> k]

HasItem(tbl, key) == key \in DOMAIN tbl

HasAttr(item, attr) == attr \in DOMAIN item

SetAttr(item, attr, value) == (attr :> value) @@ item

put_item(tbl, key, item) == (key :> item) @@ tbl

delete_item(tbl, key) == [k \in (DOMAIN tbl) \ {key} |-> tbl[k]]

\* item.get(attr, default)
GetAttr(item, attr, default) == IF HasAttr(item, attr) THEN item[attr] ELSE default

----------------------------------------------------------------------------
(* Counter Store: db.py, LocationsTable and RoutesTable *)

\* update_item(SET attr = if_not_exists(attr, 0) + 1): no condition, and
\* update_item creates the item when the key does not exist.
UpdateAddOne(tbl, key, attr) ==
    LET item == IF HasItem(tbl, key) THEN tbl[key] ELSE EmptyTable
    IN  put_item(tbl, key, SetAttr(item, attr, GetAttr(item, attr, 0) + 1))

\* ConditionExpression "attr > :zero": false when the item or the attribute
\* is missing.
CounterIsPositive(tbl, key, attr) ==
    /\ HasItem(tbl, key)
    /\ HasAttr(tbl[key], attr)
    /\ tbl[key][attr] > 0

UpdateSubOneUnconditional(tbl, key, attr) ==
    LET item == IF HasItem(tbl, key) THEN tbl[key] ELSE EmptyTable
    IN  [tbl |-> put_item(tbl, key, SetAttr(item, attr, GetAttr(item, attr, 0) - 1)),
         raised |-> "None"]

UpdateSubOneRaising(tbl, key, attr) ==
    IF CounterIsPositive(tbl, key, attr)
    THEN [tbl |-> [tbl EXCEPT ![key] = SetAttr(@, attr, @[attr] - 1)],
          raised |-> "None"]
    ELSE [tbl |-> tbl, raised |-> "ConditionalCheckFailedException"]

\* update_item(SET attr = attr - 1, ConditionExpression attr > 0) inside
\* try / except ConditionalCheckFailedException: print(...).  The result is
\* the table after the call and the exception that reaches the caller.
UpdateSubOne(tbl, key, attr) ==
    IF CounterIsPositive(tbl, key, attr)
    THEN [tbl |-> [tbl EXCEPT ![key] = SetAttr(@, attr, @[attr] - 1)],
          raised |-> "None"]
    ELSE [tbl |-> tbl, raised |-> "None"]

increment_like_count(tbl, id) == UpdateAddOne(tbl, id, "likeCount")
increment_save_count(tbl, id) == UpdateAddOne(tbl, id, "saveCount")
increment_view_count(tbl, id) == UpdateAddOne(tbl, id, "viewCount")
increment_report_count(tbl, id) == UpdateAddOne(tbl, id, "reportCount")
increment_start_count(tbl, id) == UpdateAddOne(tbl, id, "startCount")
decrement_like_count(tbl, id) == UpdateSubOne(tbl, id, "likeCount")
decrement_save_count(tbl, id) == UpdateSubOne(tbl, id, "saveCount")


----------------------------------------------------------------------------
(* Entities the engagement subsystem acts on *)

Users == {"u1", "u2"}

\* A Location as approve_suggestion.py creates it: likeCount and reportCount
\* start at 0, saveCount and viewCount are not set.
ExistingLocation(id) ==
    [id |-> id, address |-> <<"9", " ", "B", "b">>,
     description |-> <<"d">>, lat |-> 3277700, lng |-> -9679700,
     status |-> "active", photos |-> <<>>, feedbackCount |-> 0,
     likeCount |-> 0, reportCount |-> 0, createdBy |-> "u1"]

\* A Route as create_route.py creates it.
ExistingRoute(id) ==
    [id |-> id, status |-> "active", createdBy |-> "u1",
     likeCount |-> 0, saveCount |-> 0, startCount |-> 0]

LocationIds == {"L1", "L2"}     \* L2 names no Location
RouteIds == {"R1", "R2"}        \* R2 names no Route

InitStore ==
    /\ locations = ("L1" :> ExistingLocation("L1"))
    /\ routes = ("R1" :> ExistingRoute("R1"))
    /\ feedback = EmptyTable
    /\ routeFeedback = EmptyTable

NoCall == [table |-> "none", op |-> "none", id |-> "none", raised |-> "None"]

Slots == 1 .. MaxReq

IdleReq ==
    [pc |-> "idle", handler |-> "none", user |-> "none", target |-> "none",
     type |-> "none", existing |-> "None", raced |-> FALSE, location_status |-> "none",
     statusCode |-> 0, state |-> "none"]

Mods == 1 .. MaxMod

IdleMod ==
    [pc |-> "idle", kind |-> "none", sid |-> "none", admin |-> "none",
     type |-> "none", suggestion |-> EmptyTable, photos |-> <<>>, submittedBy |-> "none", location_id |-> "none",
     i |-> 0, approved_photo_urls |-> <<>>, failed |-> {}, updates |-> EmptyTable,
     statusCode |-> 0, message |-> "none"]

SubSlots == 1 .. MaxSub

IdleSub ==
    [pc |-> "idle", handler |-> "none", user |-> "none", body |-> EmptyTable,
     targetAddress |-> <<>>, statusCode |-> 0, message |-> "none", id |-> "none"]

AnaSlots == 1 .. MaxAna

IdleAna ==
    [pc |-> "idle", key |-> <<>>, suggestion_id |-> "none", analysis |-> EmptyTable,
     merged_items |-> <<>>, update |-> EmptyTable, attempt |-> 0, error_code |-> "None"]

IdleChk ==
    [pc |-> "idle", body |-> EmptyTable, statusCode |-> 0, isDuplicate |-> FALSE,
     location |-> "None", hasPendingSuggestion |-> FALSE]

\* No request has been made: no moderator, submitter or checker has acted.
InitRequests ==
    /\ mod = [m \in Mods |-> IdleMod]
    /\ faults = 0
    /\ sub = [s \in SubSlots |-> IdleSub]
    /\ chk = IdleChk
    /\ invoked = EmptyTable
    /\ ana = [a \in AnaSlots |-> IdleAna]

\* Nothing has been submitted or uploaded, no moderator has acted.
InitModeration ==
    /\ suggestions = EmptyTable
    /\ bucket = {}
    /\ InitRequests

InitEngagement ==
    /\ InitStore
    /\ call = NoCall
    /\ ncalls = 0
    /\ req = [p \in Slots |-> IdleReq]
    /\ InitModeration

Init == InitEngagement

----------------------------------------------------------------------------
(* The Counter Store called directly, in any order, by any caller *)

LocationCounterOps ==
    {"increment_like_count", "decrement_like_count", "increment_report_count",
     "increment_view_count", "increment_save_count", "decrement_save_count"}

RouteCounterOps ==
    {"increment_like_count", "decrement_like_count", "increment_save_count",
     "decrement_save_count", "increment_start_count"}

\* The table after the call and the exception the caller sees.
CounterResult(op, tbl, id) ==
    CASE op = "increment_like_count" ->
            [tbl |-> increment_like_count(tbl, id), raised |-> "None"]
      [] op = "increment_save_count" ->
            [tbl |-> increment_save_count(tbl, id), raised |-> "None"]
      [] op = "increment_view_count" ->
            [tbl |-> increment_view_count(tbl, id), raised |-> "None"]
      [] op = "increment_report_count" ->
            [tbl |-> increment_report_count(tbl, id), raised |-> "None"]
      [] op = "increment_start_count" ->
            [tbl |-> increment_start_count(tbl, id), raised |-> "None"]
      [] op = "decrement_like_count" -> decrement_like_count(tbl, id)
      [] op = "decrement_save_count" -> decrement_save_count(tbl, id)

LocationsCounterCall(op, id) ==
    /\ ncalls < MaxCalls
    /\ locations' = CounterResult(op, locations, id).tbl
    /\ call' = [table |-> "locations", op |-> op, id |-> id,
                raised |-> CounterResult(op, locations, id).raised]
    /\ ncalls' = ncalls + 1
    /\ UNCHANGED <<routes, feedback, routeFeedback, req,
                 suggestions, bucket, mod, faults, sub, chk, invoked, ana>>

RoutesCounterCall(op, id) ==
    /\ ncalls < MaxCalls
    /\ routes' = CounterResult(op, routes, id).tbl
    /\ call' = [table |-> "routes", op |-> op, id |-> id,
                raised |-> CounterResult(op, routes, id).raised]
    /\ ncalls' = ncalls + 1
    /\ UNCHANGED <<locations, feedback, routeFeedback, req,
                 suggestions, bucket, mod, faults, sub, chk, invoked, ana>>

NextCounter ==
    \/ \E op \in LocationCounterOps, id \in LocationIds : LocationsCounterCall(op, id)
    \/ \E op \in RouteCounterOps, id \in RouteIds : RoutesCounterCall(op, id)

SpecCounter == Init /\ [][NextCounter]_vars


----------------------------------------------------------------------------
(* Engagement records: db.py, FeedbackTable and RouteFeedbackTable *)

\* An id that does not repeat from one reaction to the next, as a serial
\* number or str(uuid4()) would be: the number of reactions counted so far.
FeedbackIdFresh(type, user, target) ==
    type \o "-" \o ToString(GetAttr(locations["L1"], "likeCount", 0)
                             + GetAttr(routes["R1"], "likeCount", 0)
                             + GetAttr(routes["R1"], "saveCount", 0))

\* f"like-{user['id']}-{location_id}", f"favorite-{...}-{...}",
\* f"{feedback_type}-{user['id']}-{route_id}"
FeedbackId(type, user, target) == type \o "-" \o user \o "-" \o target

\* PK = feedback#<id> (routeFeedback#<id>), SK = location#<id> (route#<id>)
FeedbackKey(item_id, target) == <<item_id, target>>

LocationFeedbackItem(type, user, location_id) ==
    [id |-> FeedbackId(type, user, location_id), locationId |-> location_id,
     userId |-> user, type |-> type]

RouteFeedbackItem(type, user, route_id) ==
    [id |-> FeedbackId(type, user, route_id), routeId |-> route_id,
     userId |-> user, type |-> type]

PutIfAbsentOtherError(tbl, key, item) ==
    IF HasItem(tbl, key)
    THEN [tbl |-> tbl, success |-> FALSE, error_code |-> "ValidationException"]
    ELSE [tbl |-> put_item(tbl, key, item), success |-> TRUE, error_code |-> "None"]

\* put_item with ConditionExpression attribute_not_exists(PK) AND
\* attribute_not_exists(SK): (success, error_code) and the table afterwards.
PutIfAbsent(tbl, key, item) ==
    IF HasItem(tbl, key)
    THEN [tbl |-> tbl, success |-> FALSE, error_code |-> "ConditionalCheckFailedException"]
    ELSE [tbl |-> put_item(tbl, key, item), success |-> TRUE, error_code |-> "None"]

create_feedback_atomic(tbl, fb) == PutIfAbsent(tbl, FeedbackKey(fb.id, fb.locationId), fb)

create_atomic(tbl, fb) == PutIfAbsent(tbl, FeedbackKey(fb.id, fb.routeId), fb)

\* query(IndexName = userId-locationId-index, KeyConditionExpression userId
\* and locationId, FilterExpression type, Limit = 1): the store evaluates ONE
\* item of the index partition (Limit counts items evaluated, and the order
\* of items with equal index keys is not specified) and then applies the
\* filter to it.  The possible return values: the id of a matching item, or
\* "None".
QueryLimitOne(candidates, type) ==
    IF candidates = {}
    THEN {"None"}
    ELSE {IF c.type = type THEN c.id ELSE "None" : c \in candidates}

get_user_feedback(tbl, location_id, user, type) ==
    QueryLimitOne({tbl[k] : k \in {j \in DOMAIN tbl :
                        tbl[j].userId = user /\ tbl[j].locationId = location_id}}, type)

route_get_user_feedback(tbl, route_id, user, type) ==
    QueryLimitOne({tbl[k] : k \in {j \in DOMAIN tbl :
                        tbl[j].userId = user /\ tbl[j].routeId = route_id}}, type)


----------------------------------------------------------------------------
(* Toggle handlers.  A request slot runs one request; pc names the store   *)
(* call the handler makes next.                                            *)

\* Slots are interchangeable: they are taken in order.
CanStart(p) ==
    /\ req[p].pc = "idle"
    /\ IF p = 1 THEN TRUE ELSE req[p - 1].pc # "idle"

SameTriple(r1, r2) ==
    /\ r1.handler = r2.handler
    /\ r1.user = r2.user
    /\ r1.target = r2.target
    /\ r1.type = r2.type

\* The requests on the same (type, userId, targetId) that are running when
\* request r arrives: r and they run concurrently.
Peers(r) == {q \in Slots : req[q].pc \notin {"idle", "done"} /\ SameTriple(req[q], r)}

Arrive(p, handler, user, target, type) ==
    [IdleReq EXCEPT !.handler = handler, !.user = user, !.target = target,
                    !.type = type]

\* Request p takes its first step as r; raced records, for r and for the
\* requests it overlaps, that they ran concurrently on one triple.
Begin(p, r) ==
    req' = [q \in Slots |->
              IF q = p THEN [r EXCEPT !.raced = (Peers(r) # {})]
              ELSE IF q \in Peers(r) THEN [req[q] EXCEPT !.raced = TRUE]
              ELSE req[q]]

Respond(r, statusCode, state) ==
    [r EXCEPT !.pc = "done", !.statusCode = statusCode, !.state = state,
              !.existing = "None"]

Goto(r, pc) == [r EXCEPT !.pc = pc]

At(p, handler, pc) == req[p].handler = handler /\ req[p].pc = pc

\* ---- POST /locations/{id}/feedback with type "like": submit_feedback.py

\* locations_table.get(location_id); not_found_error when it is missing
submit_feedback_get(p, user, location_id) ==
    /\ CanStart(p)
    /\ LET r == Arrive(p, "submit_feedback", user, location_id, "like")
       IN  Begin(p, IF HasItem(locations, location_id)
                    THEN Goto(r, "query")
                    ELSE Respond(r, 404, "not_found"))
    /\ UNCHANGED <<locations, routes, feedback, routeFeedback, call, ncalls,
                 suggestions, bucket, mod, faults, sub, chk, invoked, ana>>

\* existing = feedback_table.get_user_feedback(location_id, user, type)
submit_feedback_query(p) ==
    /\ At(p, "submit_feedback", "query")
    /\ \E existing \in get_user_feedback(feedback, req[p].target, req[p].user, req[p].type) :
          req' = [req EXCEPT ![p] =
                    [Goto(@, IF existing # "None" THEN "delete" ELSE "create")
                        EXCEPT !.existing = existing]]
    /\ UNCHANGED <<locations, routes, feedback, routeFeedback, call, ncalls,
                 suggestions, bucket, mod, faults, sub, chk, invoked, ana>>

\* feedback_table.delete(existing["id"], location_id)
submit_feedback_delete(p) ==
    /\ At(p, "submit_feedback", "delete")
    /\ feedback' = delete_item(feedback, FeedbackKey(req[p].existing, req[p].target))
    /\ req' = [req EXCEPT ![p] = Goto(@, "decrement")]
    /\ UNCHANGED <<locations, routes, routeFeedback, call, ncalls,
                 suggestions, bucket, mod, faults, sub, chk, invoked, ana>>

\* locations_table.decrement_like_count(location_id); "Like removed"
submit_feedback_decrement(p) ==
    /\ At(p, "submit_feedback", "decrement")
    /\ LET res == decrement_like_count(locations, req[p].target)
       IN  /\ locations' = res.tbl
           /\ req' = [req EXCEPT ![p] =
                        IF res.raised = "None"
                        THEN Respond(@, 200, "absent")
                        ELSE Respond(@, 500, "error")]
    /\ UNCHANGED <<routes, feedback, routeFeedback, call, ncalls,
                 suggestions, bucket, mod, faults, sub, chk, invoked, ana>>

\* success, error_code = feedback_table.create_feedback_atomic(feedback_data)
submit_feedback_create(p) ==
    /\ At(p, "submit_feedback", "create")
    /\ LET res == create_feedback_atomic(feedback,
                      LocationFeedbackItem("like", req[p].user, req[p].target))
       IN  /\ feedback' = res.tbl
           /\ req' = [req EXCEPT ![p] =
                        IF res.success
                        THEN Goto(@, "increment")
                        ELSE IF res.error_code = "ConditionalCheckFailedException"
                             THEN Goto(@, "reread")
                             ELSE Respond(@, 500, "error")]
    /\ UNCHANGED <<locations, routes, routeFeedback, call, ncalls,
                 suggestions, bucket, mod, faults, sub, chk, invoked, ana>>

\* locations_table.increment_like_count(location_id); 201 "Location liked!"
submit_feedback_increment(p) ==
    /\ At(p, "submit_feedback", "increment")
    /\ locations' = increment_like_count(locations, req[p].target)
    /\ req' = [req EXCEPT ![p] = Respond(@, 201, "present")]
    /\ UNCHANGED <<routes, feedback, routeFeedback, call, ncalls,
                 suggestions, bucket, mod, faults, sub, chk, invoked, ana>>

\* the lost race: existing = get_user_feedback(...); 200 "Location liked!"
submit_feedback_reread(p) ==
    /\ At(p, "submit_feedback", "reread")
    /\ \E existing \in get_user_feedback(feedback, req[p].target, req[p].user, "like") :
          \* "id": existing["id"] if existing else feedback_id
          req' = [req EXCEPT ![p] = Respond(@, 200, "present")]
    /\ UNCHANGED <<locations, routes, feedback, routeFeedback, call, ncalls,
                 suggestions, bucket, mod, faults, sub, chk, invoked, ana>>

submit_feedback(p) ==
    \/ \E user \in Users, location_id \in LocationIds : submit_feedback_get(p, user, location_id)
    \/ submit_feedback_query(p)
    \/ submit_feedback_delete(p)
    \/ submit_feedback_decrement(p)
    \/ submit_feedback_create(p)
    \/ submit_feedback_increment(p)
    \/ submit_feedback_reread(p)


\* ---- POST /locations/{id}/favorite: toggle_favorite.py

toggle_favorite_get(p, user, location_id) ==
    /\ CanStart(p)
    /\ LET r == Arrive(p, "toggle_favorite", user, location_id, "favorite")
       IN  Begin(p, IF HasItem(locations, location_id)
                    THEN Goto(r, "query")
                    ELSE Respond(r, 404, "not_found"))
    /\ UNCHANGED <<locations, routes, feedback, routeFeedback, call, ncalls,
                 suggestions, bucket, mod, faults, sub, chk, invoked, ana>>

toggle_favorite_query(p) ==
    /\ At(p, "toggle_favorite", "query")
    /\ \E existing \in get_user_feedback(feedback, req[p].target, req[p].user, "favorite") :
          req' = [req EXCEPT ![p] =
                    [Goto(@, IF existing # "None" THEN "delete" ELSE "create")
                        EXCEPT !.existing = existing]]
    /\ UNCHANGED <<locations, routes, feedback, routeFeedback, call, ncalls,
                 suggestions, bucket, mod, faults, sub, chk, invoked, ana>>

\* feedback_table.delete(existing["id"], location_id); "Removed from favorites"
toggle_favorite_delete(p) ==
    /\ At(p, "toggle_favorite", "delete")
    /\ feedback' = delete_item(feedback, FeedbackKey(req[p].existing, req[p].target))
    /\ req' = [req EXCEPT ![p] = Respond(@, 200, "absent")]
    /\ UNCHANGED <<locations, routes, routeFeedback, call, ncalls,
                 suggestions, bucket, mod, faults, sub, chk, invoked, ana>>

\* create_feedback_atomic: 201 "Added to favorites!", 200 "Already in favorites"
toggle_favorite_create(p) ==
    /\ At(p, "toggle_favorite", "create")
    /\ LET res == create_feedback_atomic(feedback,
                      LocationFeedbackItem("favorite", req[p].user, req[p].target))
       IN  /\ feedback' = res.tbl
           /\ req' = [req EXCEPT ![p] =
                        IF res.success
                        THEN Respond(@, 201, "present")
                        ELSE IF res.error_code = "ConditionalCheckFailedException"
                             THEN Respond(@, 200, "present")
                             ELSE Respond(@, 500, "error")]
    /\ UNCHANGED <<locations, routes, routeFeedback, call, ncalls,
                 suggestions, bucket, mod, faults, sub, chk, invoked, ana>>

toggle_favorite(p) ==
    \/ \E user \in Users, location_id \in LocationIds : toggle_favorite_get(p, user, location_id)
    \/ toggle_favorite_query(p)
    \/ toggle_favorite_delete(p)
    \/ toggle_favorite_create(p)

\* ---- POST /routes/{id}/feedback with type "like" or "save": route_feedback.py

RouteToggleTypes == {"like", "save"}

\* routes_table.get(route_id); a route that is not active is hidden from
\* everyone but its owner
route_feedback_get(p, user, route_id, type) ==
    /\ CanStart(p)
    /\ LET r == Arrive(p, "route_feedback", user, route_id, type)
       IN  Begin(p, IF ~HasItem(routes, route_id)
                    THEN Respond(r, 404, "not_found")
                    ELSE IF GetAttr(routes[route_id], "status", "None") # "active"
                            /\ GetAttr(routes[route_id], "createdBy", "None") # user
                         THEN Respond(r, 404, "not_found")
                         ELSE Goto(r, "query"))
    /\ UNCHANGED <<locations, routes, feedback, routeFeedback, call, ncalls,
                 suggestions, bucket, mod, faults, sub, chk, invoked, ana>>

route_feedback_query(p) ==
    /\ At(p, "route_feedback", "query")
    /\ \E existing \in route_get_user_feedback(routeFeedback, req[p].target,
                                                req[p].user, req[p].type) :
          req' = [req EXCEPT ![p] =
                    [Goto(@, IF existing # "None" THEN "delete" ELSE "create")
                        EXCEPT !.existing = existing]]
    /\ UNCHANGED <<locations, routes, feedback, routeFeedback, call, ncalls,
                 suggestions, bucket, mod, faults, sub, chk, invoked, ana>>

\* feedback_table.delete(existing["id"], route_id)
route_feedback_delete(p) ==
    /\ At(p, "route_feedback", "delete")
    /\ routeFeedback' = delete_item(routeFeedback, FeedbackKey(req[p].existing, req[p].target))
    /\ req' = [req EXCEPT ![p] = Goto(@, "decrement")]
    /\ UNCHANGED <<locations, routes, feedback, call, ncalls,
                 suggestions, bucket, mod, faults, sub, chk, invoked, ana>>

\* decrement_like_count / decrement_save_count; "Like removed" / "Route unsaved"
route_feedback_decrement(p) ==
    /\ At(p, "route_feedback", "decrement")
    /\ LET res == IF req[p].type = "like"
                  THEN decrement_like_count(routes, req[p].target)
                  ELSE decrement_save_count(routes, req[p].target)
       IN  /\ routes' = res.tbl
           /\ req' = [req EXCEPT ![p] =
                        IF res.raised = "None"
                        THEN Respond(@, 200, "absent")
                        ELSE Respond(@, 500, "error")]
    /\ UNCHANGED <<locations, feedback, routeFeedback, call, ncalls,
                 suggestions, bucket, mod, faults, sub, chk, invoked, ana>>

\* success, error_code = feedback_table.create_atomic(feedback_data)
route_feedback_create(p) ==
    /\ At(p, "route_feedback", "create")
    /\ LET res == create_atomic(routeFeedback,
                      RouteFeedbackItem(req[p].type, req[p].user, req[p].target))
       IN  /\ routeFeedback' = res.tbl
           /\ req' = [req EXCEPT ![p] =
                        IF res.success
                        THEN Goto(@, "increment")
                        ELSE IF res.error_code = "ConditionalCheckFailedException"
                             THEN Goto(@, "reread")
                             ELSE Respond(@, 500, "error")]
    /\ UNCHANGED <<locations, routes, feedback, call, ncalls,
                 suggestions, bucket, mod, faults, sub, chk, invoked, ana>>

\* increment_like_count / increment_save_count; 201
route_feedback_increment(p) ==
    /\ At(p, "route_feedback", "increment")
    /\ routes' = IF req[p].type = "like"
                 THEN increment_like_count(routes, req[p].target)
                 ELSE increment_save_count(routes, req[p].target)
    /\ req' = [req EXCEPT ![p] = Respond(@, 201, "present")]
    /\ UNCHANGED <<locations, feedback, routeFeedback, call, ncalls,
                 suggestions, bucket, mod, faults, sub, chk, invoked, ana>>

\* the lost race: existing = get_user_feedback(...); 200
route_feedback_reread(p) ==
    /\ At(p, "route_feedback", "reread")
    /\ \E existing \in route_get_user_feedback(routeFeedback, req[p].target,
                                                req[p].user, req[p].type) :
          \* "id": existing["id"] if existing else feedback_id
          req' = [req EXCEPT ![p] = Respond(@, 200, "present")]
    /\ UNCHANGED <<locations, routes, feedback, routeFeedback, call, ncalls,
                 suggestions, bucket, mod, faults, sub, chk, invoked, ana>>

route_feedback(p) ==
    \/ \E user \in Users, route_id \in RouteIds, type \in RouteToggleTypes :
            route_feedback_get(p, user, route_id, type)
    \/ route_feedback_query(p)
    \/ route_feedback_delete(p)
    \/ route_feedback_decrement(p)
    \/ route_feedback_create(p)
    \/ route_feedback_increment(p)
    \/ route_feedback_reread(p)

NextToggle == \E p \in Slots : submit_feedback(p) \/ toggle_favorite(p) \/ route_feedback(p)

\* Users who may have reacted before the requests of the model arrive.
PriorUsers == {"u2"}

\* The store after the users in prior have each liked Location L1 and
\* Route R1, one request after the other (record created, counter
\* incremented).
RECURSIVE AfterLikes(_, _, _)
AfterLikes(tbl, id, n) ==
    IF n = 0 THEN tbl ELSE AfterLikes(increment_like_count(tbl, id), id, n - 1)

InitToggle ==
    \E prior \in SUBSET PriorUsers :
        /\ locations = AfterLikes("L1" :> ExistingLocation("L1"), "L1", Cardinality(prior))
        /\ routes = AfterLikes("R1" :> ExistingRoute("R1"), "R1", Cardinality(prior))
        /\ feedback = [k \in {FeedbackKey(FeedbackId("like", u, "L1"), "L1") : u \in prior}
                          |-> LocationFeedbackItem("like", CHOOSE u \in prior : k[1] = FeedbackId("like", u, "L1"), "L1")]
        /\ routeFeedback = [k \in {FeedbackKey(FeedbackId("like", u, "R1"), "R1") : u \in prior}
                          |-> RouteFeedbackItem("like", CHOOSE u \in prior : k[1] = FeedbackId("like", u, "R1"), "R1")]
        /\ call = NoCall
        /\ ncalls = 0
        /\ req = [p \in Slots |-> IdleReq]
        /\ InitModeration

SpecToggle == InitToggle /\ [][NextToggle]_vars

----------------------------------------------------------------------------
(* Duplicate Detector: submit_suggestion.py and check_duplicate.py         *)
(*                                                                         *)
(* A coordinate is an integer, the number of 0.00001 degree units, so      *)
(* 32.77670 is 3277670.  An address is the sequence of its characters.     *)
(* str(lat), Decimal(str(lat)) and float(...) carry a value with five      *)
(* decimals unchanged.  A scan returns every item of the table.            *)

\* The values ...5 that round(float(coord), 4) rounds towards plus infinity:
\* round() works on the binary double, which lies above or below the
\* decimal tie.  Latitudes 32.7756 to 32.7779, longitudes -96.7981 to -96.7959.
TiesRoundedUp ==
    {3277575, 3277595, 3277615, 3277635, 3277655, 3277685, 3277705, 3277725,
     3277745, 3277765, 3277785,
     -9679785, -9679775, -9679745, -9679735, -9679705, -9679695, -9679665,
     -9679655, -9679645, -9679615, -9679605}

round_coordinate_unrounded(coord) == coord

\* round(float(coord), 4), in units of 0.00001 degree
round_coordinate(coord) ==
    LET floor4 == 10 * (coord \div 10)
        last == coord % 10
    IN  IF last < 5 THEN floor4
        ELSE IF last > 5 THEN floor4 + 10
        ELSE IF coord \in TiesRoundedUp THEN floor4 + 10 ELSE floor4

\* The small letter of each capital letter.
SmallLetter ==
    ("A" :> "a") @@ ("B" :> "b") @@ ("C" :> "c") @@ ("D" :> "d") @@ ("E" :> "e") @@ ("F" :> "f")
    @@ ("G" :> "g") @@ ("H" :> "h") @@ ("I" :> "i") @@ ("J" :> "j") @@ ("K" :> "k") @@ ("L" :> "l")
    @@ ("M" :> "m") @@ ("N" :> "n") @@ ("O" :> "o") @@ ("P" :> "p") @@ ("Q" :> "q") @@ ("R" :> "r")
    @@ ("S" :> "s") @@ ("T" :> "t") @@ ("U" :> "u") @@ ("V" :> "v") @@ ("W" :> "w") @@ ("X" :> "x")
    @@ ("Y" :> "y") @@ ("Z" :> "z")

\* str.lower()
lower(text) ==
    [i \in 1 .. Len(text) |->
        IF text[i] \in DOMAIN SmallLetter THEN SmallLetter[text[i]] ELSE text[i]]

RECURSIVE lstrip(_)
lstrip(text) ==
    IF text # <<>> /\ text[1] = " " THEN lstrip(Tail(text)) ELSE text

RECURSIVE rstrip(_)
rstrip(text) ==
    IF text # <<>> /\ text[Len(text)] = " "
    THEN rstrip(SubSeq(text, 1, Len(text) - 1))
    ELSE text

\* str.strip()
strip(text) == rstrip(lstrip(text))

\* str.split(): the words between runs of whitespace
RECURSIVE split(_)
split(text) ==
    IF text = <<>> THEN <<>>
    ELSE IF text[1] = " " THEN split(Tail(text))
    ELSE LET spaces == {i \in 1 .. Len(text) : text[i] = " "}
             n == IF spaces = {} THEN Len(text)
                  ELSE (CHOOSE i \in spaces : \A j \in spaces : i <= j) - 1
         IN  <<SubSeq(text, 1, n)>> \o split(SubSeq(text, n + 1, Len(text)))

\* " ".join(words)
RECURSIVE join(_)
join(words) ==
    IF words = <<>> THEN <<>>
    ELSE IF Len(words) = 1 THEN words[1]
    ELSE words[1] \o <<" ">> \o join(Tail(words))

normalize_address(address) ==
    IF address = <<>> THEN <<>> ELSE join(split(strip(lower(address))))

\* item_lat == lat_rounded and item_lng == lng_rounded; a missing
\* coordinate rounds to None, which equals no number.
CoordinateMatch(item, lat_rounded, lng_rounded) ==
    /\ HasAttr(item, "lat") /\ HasAttr(item, "lng")
    /\ round_coordinate(item.lat) = lat_rounded
    /\ round_coordinate(item.lng) = lng_rounded

\* item_address and item_address == address_normalized
AddressMatch(item, address_normalized) ==
    LET item_address == normalize_address(GetAttr(item, "address", <<>>))
    IN  item_address # <<>> /\ item_address = address_normalized

\* Either check alone is sufficient.
ItemMatchesBoth(item, lat_rounded, lng_rounded, address_normalized) ==
    /\ CoordinateMatch(item, lat_rounded, lng_rounded)
    /\ AddressMatch(item, address_normalized)

ItemMatches(item, lat_rounded, lng_rounded, address_normalized) ==
    \/ CoordinateMatch(item, lat_rounded, lng_rounded)
    \/ AddressMatch(item, address_normalized)

\* scan with FilterExpression SK = metadata AND status = active
ScanActiveLocations(tbl) ==
    {id \in DOMAIN tbl : GetAttr(tbl[id], "status", "None") = "active"}

\* scan with FilterExpression status = pending AND type = new_location
ScanPendingNewLocations(tbl) ==
    {id \in DOMAIN tbl : /\ GetAttr(tbl[id], "status", "None") = "pending"
                         /\ GetAttr(tbl[id], "type", "None") = "new_location"}

\* The items the loop over a scan can return: the first item, in the order
\* the scan happens to deliver, that matches; "None" when none does.
FirstMatch(tbl, scanned, lat_rounded, lng_rounded, address_normalized) ==
    LET matching == {id \in scanned :
                        ItemMatches(tbl[id], lat_rounded, lng_rounded, address_normalized)}
    IN  IF matching = {} THEN {"None"} ELSE matching

check_locations_table_skipped(tbl, lat_rounded, lng_rounded, address_normalized) ==
    {"None"}

check_locations_table(tbl, lat_rounded, lng_rounded, address_normalized) ==
    FirstMatch(tbl, ScanActiveLocations(tbl), lat_rounded, lng_rounded, address_normalized)

check_suggestions_table(tbl, lat_rounded, lng_rounded, address_normalized) ==
    FirstMatch(tbl, ScanPendingNewLocations(tbl), lat_rounded, lng_rounded, address_normalized)

----------------------------------------------------------------------------
(* Photo storage and Submissions                                           *)
(*                                                                         *)
(* An object key "pending/u1/a.jpg" is the sequence of its path            *)
(* components, <<"pending", "u1", "a.jpg">>.  Reads of the Suggestions      *)
(* table are taken to return the latest write.                              *)

Submitters == {"u1"}
Admins == {"m1", "m2"}
SuggestionIds == {"S1"}
PhotoIds == {"a.jpg", "b.jpg"}

\* get_upload_url: the key the presigned upload is bound to.
PhotoKey(owner, photo_id) == <<"pending", owner, photo_id>>

startswith_pending(photo_key) == Len(photo_key) > 0 /\ photo_key[1] = "pending"

Filename(photo_key) == photo_key[Len(photo_key)]

ApprovedKey(location_id, filename) == <<"approved", location_id, filename>>

CdnUrl(location_id, filename) == <<"cdn", location_id, filename>>

\* uuid4: an id no other invocation obtains.
NewLocationId(m) == "loc-" \o ToString(m)

\* The sequences without repetition over the set keys.
RECURSIVE Arrangements(_)
Arrangements(keys) ==
    IF keys = {} THEN {<<>>}
    ELSE UNION {{<<k>> \o rest : rest \in Arrangements(keys \ {k})} : k \in keys}

\* One more analysis event for the photo key is in flight.
lambda_invoke(events, photo_key) ==
    IF photo_key \in DOMAIN events
    THEN [events EXCEPT ![photo_key] = @ + 1]
    ELSE (photo_key :> 1) @@ events

\* The bucket's OBJECT_CREATED notification, filtered on the pending/ prefix.
S3EventSource(events, photo_key) ==
    IF startswith_pending(photo_key) THEN lambda_invoke(events, photo_key) ELSE events

\* for photo_key in photos[:3]: lambda_client.invoke(..., InvocationType="Event")
RECURSIVE trigger_analysis(_, _)
trigger_analysis(events, photos) ==
    IF photos = <<>> THEN events
    ELSE trigger_analysis(lambda_invoke(events, Head(photos)), Tail(photos))

\* photos[:], the whole list
SliceAll(list, n) == list

\* photos[:n]
Slice(list, n) == SubSeq(list, 1, IF Len(list) < n THEN Len(list) ELSE n)

\* A client obtains an upload URL and posts the photo to it.  Photo ids are
\* uuids, so no two objects share one: uploads precede the submission.
upload_photo(user, photo_id) ==
    /\ \A k \in bucket : Filename(k) # photo_id
    /\ \A sid \in DOMAIN suggestions : suggestions[sid].submittedBy # user
    /\ bucket' = bucket \cup {PhotoKey(user, photo_id)}
    /\ invoked' = S3EventSource(invoked, PhotoKey(user, photo_id))
    /\ UNCHANGED <<locations, routes, feedback, routeFeedback, call, ncalls, req,
                   suggestions, mod, faults, sub, chk, ana>>

UploadedBy(user) == {k \in bucket : startswith_pending(k) /\ k[2] = user}

\* The photo lists a client may name: staged keys, none twice.
StagedLists ==
    UNION {Arrangements(keys) :
             keys \in SUBSET {PhotoKey(u, p) : u \in Submitters, p \in PhotoIds}}

\* A call that raises ClientError uses up one of the MaxFaults.
Raises(fail) ==
    /\ fail => faults < MaxFaults
    /\ faults' = IF fail THEN faults + 1 ELSE faults

\* c.isdigit() and c.isalpha(), over the characters addresses are made of
isdigit(c) == c \in {"1", "9"}

isalpha(c) == c \in {"A", "a", "B", "b"}

MIN_DESCRIPTION == 20

MAX_PHOTOS == 3
MAX_TAGS == 10

\* validate_address_format: the error message, "None" for a valid address
validate_address_format(address) ==
    LET parts == split(strip(address))
        first_part == parts[1]
        remaining == join(Tail(parts))
    IN  IF address = <<>> THEN "Address is required"
        ELSE IF Len(parts) < 2
        THEN "Address must include street number and street name"
        ELSE IF ~\E i \in 1 .. Len(first_part) : isdigit(first_part[i])
        THEN "Address must start with a street number"
        ELSE IF Len(remaining) < 2 THEN "Address must include street name"
        ELSE IF ~\E i \in 1 .. Len(remaining) : isalpha(remaining[i])
        THEN "Address must include street name"
        ELSE "None"

ValidationErrorWithoutFormat(body) ==
    LET address == strip(GetAttr(body, "address", <<>>))
        description == strip(GetAttr(body, "description", <<>>))
    IN  IF address = <<>> THEN "Address is required"
        ELSE IF Len(description) < MIN_DESCRIPTION
        THEN "Description must be at least 20 characters"
        ELSE IF ~HasAttr(body, "lat") \/ ~HasAttr(body, "lng")
        THEN "Coordinates (lat/lng) are required"
        ELSE "None"

\* The basic validation of a new_location body: the message of the 400
\* response, "None" when the body passes.
ValidationError(body) ==
    LET address == strip(GetAttr(body, "address", <<>>))
        description == strip(GetAttr(body, "description", <<>>))
    IN  IF address = <<>> THEN "Address is required"
        ELSE IF Len(description) < MIN_DESCRIPTION
        THEN "Description must be at least 20 characters"
        ELSE IF ~HasAttr(body, "lat") \/ ~HasAttr(body, "lng")
        THEN "Coordinates (lat/lng) are required"
        ELSE validate_address_format(address)

\* uuid4: an id no other request obtains.
NewSuggestionId(s) == "S" \o ToString(s)

\* The item put_item writes for a new_location body.
SuggestionItem(suggestion_id, user, body) ==
    [id |-> suggestion_id, type |-> "new_location",
     address |-> strip(GetAttr(body, "address", <<>>)),
     description |-> strip(GetAttr(body, "description", <<>>)),
     lat |-> body.lat, lng |-> body.lng,
     photos |-> GetAttr(body, "photos", <<>>),
     status |-> "pending", submittedBy |-> user]

\* The item put_item writes for a photo_update body.
PhotoUpdateItem(suggestion_id, user, body, targetAddress) ==
    [id |-> suggestion_id, type |-> "photo_update",
     targetLocationId |-> body.targetLocationId, targetAddress |-> targetAddress,
     photos |-> body.photos, status |-> "pending", submittedBy |-> user]

SubCanStart(s) == IF s = 1 THEN TRUE ELSE sub[s - 1].pc # "idle"

SubFinish(r, statusCode, message) ==
    [r EXCEPT !.pc = "done", !.statusCode = statusCode, !.message = message]

\* The photos a body names were uploaded by the caller.
NamesOwnPhotos(user, body) ==
    LET photos == GetAttr(body, "photos", <<>>)
    IN  \A i \in 1 .. Len(photos) : photos[i] \in UploadedBy(user)

\* submitEntry, new_location: validation, then the scan of the Locations
\* table in check_for_duplicate.
submit_suggestion_check_locations(s, user, body) ==
    /\ sub[s].pc = "idle"
    /\ SubCanStart(s)
    /\ GetAttr(body, "type", "new_location") # "photo_update"
    /\ NamesOwnPhotos(user, body)
    /\ LET r == [sub[s] EXCEPT !.handler = "submit_suggestion", !.user = user,
                               !.body = body]
           error == ValidationError(body)
           address == strip(GetAttr(body, "address", <<>>))
       IN  IF error # "None"
           THEN sub' = [sub EXCEPT ![s] = SubFinish(r, 400, error)]
           ELSE \E hit \in check_locations_table(locations,
                              round_coordinate(body.lat), round_coordinate(body.lng),
                              normalize_address(address)) :
                  sub' = [sub EXCEPT ![s] =
                     IF hit = "None" THEN [r EXCEPT !.pc = "check_suggestions"]
                     ELSE IF CoordinateMatch(locations[hit], round_coordinate(body.lat),
                                             round_coordinate(body.lng))
                     THEN SubFinish(r, 409, "This location already exists on the map")
                     ELSE SubFinish(r, 409, "This address already exists on the map")]
    /\ UNCHANGED <<locations, routes, feedback, routeFeedback, call, ncalls, req,
                   suggestions, bucket, mod, faults, chk, invoked, ana>>

\* The scan of the pending new_location Submissions in check_for_duplicate.
submit_suggestion_check_suggestions(s) ==
    /\ sub[s].pc = "check_suggestions"
    /\ LET body == sub[s].body
           lat_rounded == round_coordinate(body.lat)
           lng_rounded == round_coordinate(body.lng)
           address == strip(GetAttr(body, "address", <<>>))
       IN  \E hit \in check_suggestions_table(suggestions, lat_rounded, lng_rounded,
                                              normalize_address(address)) :
             sub' = [sub EXCEPT ![s] =
                IF hit = "None" THEN [@ EXCEPT !.pc = "put"]
                ELSE IF CoordinateMatch(suggestions[hit], lat_rounded, lng_rounded)
                THEN SubFinish(@, 409,
                       "This location has already been submitted and is pending review")
                ELSE SubFinish(@, 409,
                       "This address has already been submitted and is pending review")]
    /\ UNCHANGED <<locations, routes, feedback, routeFeedback, call, ncalls, req,
                   suggestions, bucket, mod, faults, chk, invoked, ana>>

\* table.put_item(Item=item), unconditional.
submit_suggestion_put(s, fail) ==
    /\ sub[s].pc = "put"
    /\ Raises(fail)
    /\ IF fail
       THEN /\ sub' = [sub EXCEPT ![s] = SubFinish(@, 500, "Failed to save suggestion")]
            /\ UNCHANGED suggestions
       ELSE /\ suggestions' = put_item(suggestions, NewSuggestionId(s),
                    SuggestionItem(NewSuggestionId(s), sub[s].user, sub[s].body))
            /\ sub' = [sub EXCEPT ![s] =
                  SubFinish([@ EXCEPT !.id = NewSuggestionId(s)], 201,
                            "Suggestion submitted successfully")]
    /\ invoked' = IF fail THEN invoked
                  ELSE trigger_analysis(invoked, Slice(GetAttr(sub[s].body, "photos", <<>>), MAX_PHOTOS))
    /\ UNCHANGED <<locations, routes, feedback, routeFeedback, call, ncalls, req,
                   bucket, mod, chk, ana>>

\* location.get("address", "Unknown")
Unknown == <<"U", "n", "k", "n", "o", "w", "n">>

\* handle_photo_update: validation, then get_item of the target Location.
handle_photo_update_get(s, user, body) ==
    /\ sub[s].pc = "idle"
    /\ SubCanStart(s)
    /\ GetAttr(body, "type", "new_location") = "photo_update"
    /\ NamesOwnPhotos(user, body)
    /\ LET r == [sub[s] EXCEPT !.handler = "handle_photo_update", !.user = user,
                               !.body = body]
           photos == GetAttr(body, "photos", <<>>)
       IN  sub' = [sub EXCEPT ![s] =
              IF ~HasAttr(body, "targetLocationId")
              THEN SubFinish(r, 400, "Target location ID is required for photo updates")
              ELSE IF photos = <<>>
              THEN SubFinish(r, 400, "At least one photo is required")
              ELSE IF Len(photos) > MAX_PHOTOS
              THEN SubFinish(r, 400, "Maximum 3 photos allowed")
              ELSE IF ~HasItem(locations, body.targetLocationId)
              THEN SubFinish(r, 404, "Target location not found")
              ELSE IF GetAttr(locations[body.targetLocationId], "photos", <<>>) # <<>>
              THEN SubFinish(r, 400, "This location already has photos")
              ELSE [r EXCEPT !.pc = "scan",
                             !.targetAddress =
                                 GetAttr(locations[body.targetLocationId], "address", Unknown)]]
    /\ UNCHANGED <<locations, routes, feedback, routeFeedback, call, ncalls, req,
                   suggestions, bucket, mod, faults, chk, invoked, ana>>

\* scan for the caller's pending photo_update Submission on the Location
ScanPendingPhotoUpdates(tbl, target_location_id, user_id) ==
    {id \in DOMAIN tbl :
        /\ GetAttr(tbl[id], "type", "None") = "photo_update"
        /\ GetAttr(tbl[id], "targetLocationId", "None") = target_location_id
        /\ GetAttr(tbl[id], "submittedBy", "None") = user_id
        /\ GetAttr(tbl[id], "status", "None") = "pending"}

handle_photo_update_scan(s) ==
    /\ sub[s].pc = "scan"
    /\ sub' = [sub EXCEPT ![s] =
          IF ScanPendingPhotoUpdates(suggestions, sub[s].body.targetLocationId,
                                     sub[s].user) # {}
          THEN SubFinish(@, 400,
                 "You already have a pending photo submission for this location")
          ELSE [@ EXCEPT !.pc = "put_photo_update"]]
    /\ UNCHANGED <<locations, routes, feedback, routeFeedback, call, ncalls, req,
                   suggestions, bucket, mod, faults, chk, invoked, ana>>

\* table.put_item(Item=item) of the photo_update Submission.
handle_photo_update_put(s, fail) ==
    /\ sub[s].pc = "put_photo_update"
    /\ Raises(fail)
    /\ IF fail
       THEN /\ sub' = [sub EXCEPT ![s] = SubFinish(@, 500, "Failed to save suggestion")]
            /\ UNCHANGED suggestions
       ELSE /\ suggestions' = put_item(suggestions, NewSuggestionId(s),
                    PhotoUpdateItem(NewSuggestionId(s), sub[s].user, sub[s].body,
                                    sub[s].targetAddress))
            /\ sub' = [sub EXCEPT ![s] =
                  SubFinish([@ EXCEPT !.id = NewSuggestionId(s)], 201,
                            "Photo submission received and pending approval")]
    /\ invoked' = IF fail THEN invoked
                  ELSE trigger_analysis(invoked, Slice(sub[s].body.photos, MAX_PHOTOS))
    /\ UNCHANGED <<locations, routes, feedback, routeFeedback, call, ncalls, req,
                   bucket, mod, chk, ana>>

----------------------------------------------------------------------------
(* Moderation: approve_suggestion and reject_suggestion, one store call    *)
(* per step.  A call that can raise ClientError does so at most MaxFaults  *)
(* times in a behaviour.                                                   *)

\* s3_client.copy_object: the bucket afterwards and whether ClientError was
\* raised; a missing source raises (NoSuchKey), as does a storage error.
copy_object_silent(bkt, source_key, key, error) == [bucket |-> bkt, raised |-> FALSE]

copy_object(bkt, source_key, key, error) ==
    IF error \/ source_key \notin bkt
    THEN [bucket |-> bkt, raised |-> TRUE]
    ELSE [bucket |-> bkt \cup {key}, raised |-> FALSE]

\* s3_client.delete_object: deleting a missing key is not an error.
delete_object_kept(bkt, key, error) == [bucket |-> bkt, raised |-> error]

delete_object(bkt, key, error) ==
    IF error
    THEN [bucket |-> bkt, raised |-> TRUE]
    ELSE [bucket |-> bkt \ {key}, raised |-> FALSE]

\* datetime.now(timezone.utc).isoformat()
now == "now"

ModCanStart(m) == IF m = 1 THEN TRUE ELSE mod[m - 1].pc # "idle"

ModAt(m, kind, pc) == mod[m].kind = kind /\ mod[m].pc = pc

Finish(r, statusCode, message) ==
    [r EXCEPT !.pc = "done", !.statusCode = statusCode, !.message = message]

IsPendingAlways(suggestion) == TRUE

IsPending(suggestion) == GetAttr(suggestion, "status", "None") = "pending"

\* update_item with a SET expression: upserts the named attributes.
UpdateSet(tbl, key, attrs) ==
    IF HasItem(tbl, key) THEN [tbl EXCEPT ![key] = attrs @@ @] ELSE put_item(tbl, key, attrs)

\* get_item and the checks that follow it, common to approve and reject.
ModerationGet(m, kind, sid, admin) ==
    /\ mod[m].pc = "idle"
    /\ ModCanStart(m)
    /\ LET r == [mod[m] EXCEPT !.kind = kind, !.sid = sid, !.admin = admin] IN
         mod' = [mod EXCEPT ![m] =
            IF ~HasItem(suggestions, sid)
            THEN Finish(r, 404, "Suggestion not found")
            ELSE IF ~IsPending(suggestions[sid])
            THEN Finish(r, 400, "Suggestion already processed")
            ELSE LET suggestion_type == GetAttr(suggestions[sid], "type", "new_location")
                     photo_update == kind = "approve" /\ suggestion_type = "photo_update"
                 IN  [r EXCEPT !.pc = IF photo_update THEN "target" ELSE "photos",
                               !.type = suggestion_type,
                               !.suggestion = suggestions[sid],
                               !.photos = GetAttr(suggestions[sid], "photos", <<>>),
                               !.submittedBy = suggestions[sid].submittedBy,
                               !.location_id = IF kind = "approve" /\ ~photo_update
                                               THEN NewLocationId(m) ELSE "none",
                               !.i = 1]]
    /\ UNCHANGED <<locations, routes, feedback, routeFeedback, call, ncalls, req,
                   suggestions, bucket, faults, sub, chk, invoked, ana>>

approve_suggestion_get(m, sid, admin) ==
    /\ mod[m].kind = "none"
    /\ ModerationGet(m, "approve", sid, admin)

NextPhoto(r) == [r EXCEPT !.pc = "photos", !.i = @ + 1]

SkipPhotoAborts(r) ==
    [r EXCEPT !.pc = "done", !.statusCode = 500,
              !.message = "Failed to approve suggestion"]

\* except ClientError: print(...), on to the next photo
SkipPhoto(r) == NextPhoto([r EXCEPT !.failed = @ \cup {r.photos[r.i]}])

\* for photo_key in pending_photos: the loop has no photo left
LoopOverAlways(r) == TRUE

LoopOver(r) == r.i > Len(r.photos)

\* copy_object of the current photo; a missing source or a storage error
\* raises ClientError, which skips the photo.
CopyPhoto(m, fail) ==
    /\ ModAt(m, "approve", "photos")
    /\ ~LoopOver(mod[m])
    /\ LET photo_key == mod[m].photos[mod[m].i]
           approved_key == ApprovedKey(mod[m].location_id, Filename(photo_key))
       IN  IF ~startswith_pending(photo_key)
           THEN /\ ~fail
                /\ mod' = [mod EXCEPT ![m] = NextPhoto(@)]
                /\ UNCHANGED <<bucket, faults>>
           ELSE LET res == copy_object(bucket, photo_key, approved_key, fail) IN
                /\ Raises(fail)
                /\ bucket' = res.bucket
                /\ mod' = [mod EXCEPT ![m] =
                             IF res.raised THEN SkipPhoto(@) ELSE [@ EXCEPT !.pc = "delete"]]
    /\ UNCHANGED <<locations, routes, feedback, routeFeedback, call, ncalls, req,
                   suggestions, sub, chk, invoked, ana>>

\* delete_object of the staged photo, then the URL is recorded; a storage
\* error skips the rest of this photo.
DeletePhoto(m, fail) ==
    /\ ModAt(m, "approve", "delete")
    /\ Raises(fail)
    /\ LET photo_key == mod[m].photos[mod[m].i]
           res == delete_object(bucket, photo_key, fail)
       IN  /\ bucket' = res.bucket
           /\ mod' = [mod EXCEPT ![m] =
                 IF res.raised
                 THEN SkipPhoto(@)
                 ELSE NextPhoto([@ EXCEPT !.approved_photo_urls =
                        Append(@, CdnUrl(mod[m].location_id, Filename(photo_key)))])]
    /\ UNCHANGED <<locations, routes, feedback, routeFeedback, call, ncalls, req,
                   suggestions, sub, chk, invoked, ana>>

approve_suggestion_copy(m, fail) ==
    /\ mod[m].type = "new_location"
    /\ CopyPhoto(m, fail)

approve_suggestion_delete(m, fail) ==
    /\ mod[m].type = "new_location"
    /\ DeletePhoto(m, fail)

\* The AI-generated fields of the Submission, each copied if it is set:
\* if suggestion.get("detectedTags"): ... = suggestion["detectedTags"], and
\* the same for aiDescription and displayQuality.
ai_generated_fields(suggestion) ==
    (IF GetAttr(suggestion, "detectedTags", <<>>) # <<>>
     THEN [decorations |-> suggestion.detectedTags] ELSE EmptyTable)
    @@ (IF GetAttr(suggestion, "aiDescription", <<>>) # <<>>
        THEN [aiDescription |-> suggestion.aiDescription] ELSE EmptyTable)
    @@ (IF HasAttr(suggestion, "displayQuality")
        THEN [displayQuality |-> suggestion.displayQuality] ELSE EmptyTable)

location_item(r) ==
    [id |-> r.location_id, address |-> r.suggestion.address,
     description |-> r.suggestion.description,
     lat |-> r.suggestion.lat, lng |-> r.suggestion.lng,
     photos |-> r.approved_photo_urls, status |-> "active",
     feedbackCount |-> 0, likeCount |-> 0, reportCount |-> 0,
     createdBy |-> r.submittedBy]
    @@ ai_generated_fields(r.suggestion)

\* locations_table.put_item once the photo loop is over.
approve_suggestion_put(m, fail) ==
    /\ ModAt(m, "approve", "photos")
    /\ mod[m].type = "new_location"
    /\ LoopOver(mod[m])
    /\ Raises(fail)
    /\ IF fail
       THEN /\ mod' = [mod EXCEPT ![m] = Finish(@, 500, "Failed to approve suggestion")]
            /\ UNCHANGED locations
       ELSE /\ locations' = put_item(locations, mod[m].location_id, location_item(mod[m]))
            /\ mod' = [mod EXCEPT ![m].pc = "update"]
    /\ UNCHANGED <<routes, feedback, routeFeedback, call, ncalls, req,
                   suggestions, bucket, sub, chk, invoked, ana>>

\* suggestions_table.update_item: status approved, with the back-reference.
approve_suggestion_update(m, fail) ==
    /\ ModAt(m, "approve", "update")
    /\ mod[m].type = "new_location"
    /\ Raises(fail)
    /\ IF fail
       THEN /\ mod' = [mod EXCEPT ![m] = Finish(@, 500, "Failed to approve suggestion")]
            /\ UNCHANGED suggestions
       ELSE /\ suggestions' = UpdateSet(suggestions, mod[m].sid,
                    [status |-> "approved", reviewedAt |-> now, reviewedBy |-> mod[m].admin,
                     locationId |-> mod[m].location_id])
            /\ mod' = [mod EXCEPT ![m] = Finish(@, 200, "Suggestion approved")]
    /\ UNCHANGED <<locations, routes, feedback, routeFeedback, call, ncalls, req,
                   bucket, sub, chk, invoked, ana>>

\* handle_photo_update_approval: get_item of the target Location.
handle_photo_update_approval_get(m) ==
    /\ ModAt(m, "approve", "target")
    /\ LET target_location_id == GetAttr(mod[m].suggestion, "targetLocationId", "None") IN
         mod' = [mod EXCEPT ![m] =
            IF target_location_id = "None"
            THEN Finish(@, 400, "Photo update missing target location ID")
            ELSE IF ~HasItem(locations, target_location_id)
            THEN Finish(@, 404, "Target location not found")
            ELSE [@ EXCEPT !.pc = "photos", !.location_id = target_location_id]]
    /\ UNCHANGED <<locations, routes, feedback, routeFeedback, call, ncalls, req,
                   suggestions, bucket, faults, sub, chk, invoked, ana>>

handle_photo_update_approval_copy(m, fail) ==
    /\ mod[m].type = "photo_update"
    /\ CopyPhoto(m, fail)

handle_photo_update_approval_delete(m, fail) ==
    /\ mod[m].type = "photo_update"
    /\ DeletePhoto(m, fail)

\* locations_table.update_item: SET photos = :photos, updatedAt, the
\* AI-generated fields and photoSubmittedBy, once the loop is over.
handle_photo_update_approval_set_photos(m, fail) ==
    /\ ModAt(m, "approve", "photos")
    /\ mod[m].type = "photo_update"
    /\ LoopOver(mod[m])
    /\ Raises(fail)
    /\ IF fail
       THEN /\ mod' = [mod EXCEPT ![m] =
                  Finish(@, 500, "Failed to update location with photos")]
            /\ UNCHANGED locations
       ELSE /\ locations' = UpdateSet(locations, mod[m].location_id,
                    [photos |-> mod[m].approved_photo_urls, updatedAt |-> now,
                     photoSubmittedBy |-> mod[m].submittedBy]
                    @@ ai_generated_fields(mod[m].suggestion))
            /\ mod' = [mod EXCEPT ![m].pc = "update"]
    /\ UNCHANGED <<routes, feedback, routeFeedback, call, ncalls, req,
                   suggestions, bucket, sub, chk, invoked, ana>>

\* suggestions_table.update_item: status approved.
handle_photo_update_approval_update(m, fail) ==
    /\ ModAt(m, "approve", "update")
    /\ mod[m].type = "photo_update"
    /\ Raises(fail)
    /\ IF fail
       THEN /\ mod' = [mod EXCEPT ![m] = Finish(@, 500, "Failed to approve suggestion")]
            /\ UNCHANGED suggestions
       ELSE /\ suggestions' = UpdateSet(suggestions, mod[m].sid,
                    [status |-> "approved", reviewedAt |-> now,
                     reviewedBy |-> mod[m].admin])
            /\ mod' = [mod EXCEPT ![m] = Finish(@, 200, "Photo update approved")]
    /\ UNCHANGED <<locations, routes, feedback, routeFeedback, call, ncalls, req,
                   bucket, sub, chk, invoked, ana>>

handle_photo_update_approval(m) ==
    \/ handle_photo_update_approval_get(m)
    \/ \E fail \in BOOLEAN : handle_photo_update_approval_copy(m, fail)
    \/ \E fail \in BOOLEAN : handle_photo_update_approval_delete(m, fail)
    \/ \E fail \in BOOLEAN : handle_photo_update_approval_set_photos(m, fail)
    \/ \E fail \in BOOLEAN : handle_photo_update_approval_update(m, fail)

approve_suggestion(m) ==
    \/ \E sid \in SuggestionIds, admin \in Admins : approve_suggestion_get(m, sid, admin)
    \/ \E fail \in BOOLEAN : approve_suggestion_copy(m, fail)
    \/ \E fail \in BOOLEAN : approve_suggestion_delete(m, fail)
    \/ \E fail \in BOOLEAN : approve_suggestion_put(m, fail)
    \/ \E fail \in BOOLEAN : approve_suggestion_update(m, fail)

reject_suggestion_get(m, sid, admin) ==
    /\ mod[m].kind = "none"
    /\ ModerationGet(m, "reject", sid, admin)

\* delete_object of the current staged photo; a storage error is skipped.
reject_suggestion_delete(m, fail) ==
    /\ ModAt(m, "reject", "photos")
    /\ ~LoopOver(mod[m])
    /\ LET photo_key == mod[m].photos[mod[m].i]
           res == delete_object(bucket, photo_key, fail)
       IN  IF ~startswith_pending(photo_key)
           THEN /\ ~fail
                /\ mod' = [mod EXCEPT ![m] = NextPhoto(@)]
                /\ UNCHANGED <<bucket, faults>>
           ELSE /\ Raises(fail)
                /\ bucket' = res.bucket
                /\ mod' = [mod EXCEPT ![m] = IF res.raised THEN SkipPhoto(@) ELSE NextPhoto(@)]
    /\ UNCHANGED <<locations, routes, feedback, routeFeedback, call, ncalls, req,
                   suggestions, sub, chk, invoked, ana>>

\* table.update_item: status rejected.
reject_suggestion_update(m, fail) ==
    /\ ModAt(m, "reject", "photos")
    /\ LoopOver(mod[m])
    /\ Raises(fail)
    /\ IF fail
       THEN /\ mod' = [mod EXCEPT ![m] = Finish(@, 500, "Failed to reject suggestion")]
            /\ UNCHANGED suggestions
       ELSE /\ suggestions' = UpdateSet(suggestions, mod[m].sid,
                    [status |-> "rejected", reviewedAt |-> now, reviewedBy |-> mod[m].admin,
                     rejectionReason |-> "reason"])
            /\ mod' = [mod EXCEPT ![m] = Finish(@, 200, "Suggestion rejected")]
    /\ UNCHANGED <<locations, routes, feedback, routeFeedback, call, ncalls, req,
                   bucket, sub, chk, invoked, ana>>

reject_suggestion(m) ==
    \/ \E sid \in SuggestionIds, admin \in Admins : reject_suggestion_get(m, sid, admin)
    \/ \E fail \in BOOLEAN : reject_suggestion_delete(m, fail)
    \/ \E fail \in BOOLEAN : reject_suggestion_update(m, fail)

\* A body that passes validation, at a place no Location is at.
Description == [i \in 1 .. MIN_DESCRIPTION |-> "d"]

NewLocationBody(photos) ==
    [address |-> <<"1", " ", "A", "b">>, description |-> Description,
     lat |-> 3277670, lng |-> -9679600, photos |-> photos]

NewLocationBodies == {NewLocationBody(photos) : photos \in StagedLists}

NextLifecycle ==
    \/ \E user \in Submitters, photo_id \in PhotoIds : upload_photo(user, photo_id)
    \/ \E user \in Submitters, body \in NewLocationBodies :
          submit_suggestion_check_locations(1, user, body)
    \/ submit_suggestion_check_suggestions(1)
    \/ \E fail \in BOOLEAN : submit_suggestion_put(1, fail)
    \/ \E m \in Mods : approve_suggestion(m) \/ reject_suggestion(m)

SpecLifecycle == Init /\ [][NextLifecycle]_vars

----------------------------------------------------------------------------
(* Moderation of both kinds of Submission, by two submitters *)

PhotoSubmitters == {"u1", "u2"}

\* The photo each submitter uploads.
PhotoOf(user) == IF user = "u1" THEN "a.jpg" ELSE "b.jpg"

\* The photo lists a body may name: none, or the submitter's photo.
PhotoLists == {<<>>} \cup {<<PhotoKey(u, PhotoOf(u))>> : u \in PhotoSubmitters}

PhotoUpdateBody(target_location_id, photos) ==
    [type |-> "photo_update", targetLocationId |-> target_location_id, photos |-> photos]

PhotoUpdateBodies ==
    {PhotoUpdateBody(l, photos) : l \in LocationIds, photos \in PhotoLists}

SubmittedIds == {NewSuggestionId(s) : s \in SubSlots}

NextModeration ==
    \/ \E user \in PhotoSubmitters : upload_photo(user, PhotoOf(user))
    \/ \E s \in SubSlots, user \in PhotoSubmitters, photos \in PhotoLists :
          submit_suggestion_check_locations(s, user, NewLocationBody(photos))
    \/ \E s \in SubSlots : submit_suggestion_check_suggestions(s)
    \/ \E s \in SubSlots, fail \in BOOLEAN : submit_suggestion_put(s, fail)
    \/ \E s \in SubSlots, user \in PhotoSubmitters, body \in PhotoUpdateBodies :
          handle_photo_update_get(s, user, body)
    \/ \E s \in SubSlots : handle_photo_update_scan(s)
    \/ \E s \in SubSlots, fail \in BOOLEAN : handle_photo_update_put(s, fail)
    \/ \E m \in Mods, sid \in SubmittedIds : approve_suggestion_get(m, sid, "m1")
    \/ \E m \in Mods, fail \in BOOLEAN : approve_suggestion_copy(m, fail)
    \/ \E m \in Mods, fail \in BOOLEAN : approve_suggestion_delete(m, fail)
    \/ \E m \in Mods, fail \in BOOLEAN : approve_suggestion_put(m, fail)
    \/ \E m \in Mods, fail \in BOOLEAN : approve_suggestion_update(m, fail)
    \/ \E m \in Mods : handle_photo_update_approval(m)

SpecModeration == Init /\ [][NextModeration]_vars

----------------------------------------------------------------------------
(* The Duplicate Detector at work: check_duplicate.py, submitEntry and the *)
(* admin's create_location over a few places and addresses                 *)

\* create_location.py: an admin creates a Location; the address may be the
\* empty string.
create_location(id, address, lat, lng) ==
    /\ ~HasItem(locations, id)
    /\ locations' = put_item(locations, id,
          [id |-> id, address |-> address, description |-> <<>>,
           lat |-> lat, lng |-> lng, photos |-> <<>>, status |-> "active",
           feedbackCount |-> 0, likeCount |-> 0, reportCount |-> 0,
           createdBy |-> "m1"])
    /\ UNCHANGED <<routes, feedback, routeFeedback, call, ncalls, req,
                   suggestions, bucket, mod, faults, sub, chk, invoked, ana>>

ChkFinish(r, statusCode, isDuplicate, location, hasPendingSuggestion) ==
    [r EXCEPT !.pc = "done", !.statusCode = statusCode, !.isDuplicate = isDuplicate,
              !.location = location, !.hasPendingSuggestion = hasPendingSuggestion]

\* check_duplicate handler: validation, then check_locations_table.
check_duplicate_locations(body) ==
    /\ chk.pc = "idle"
    /\ LET r == [chk EXCEPT !.body = body] IN
         IF ~HasAttr(body, "lat") \/ ~HasAttr(body, "lng")
         THEN chk' = ChkFinish(r, 400, FALSE, "None", FALSE)
         ELSE \E existing_location \in
                   check_locations_table(locations, round_coordinate(body.lat),
                       round_coordinate(body.lng),
                       normalize_address(GetAttr(body, "address", <<>>))) :
                chk' = IF existing_location # "None"
                       THEN ChkFinish(r, 200, TRUE, existing_location, FALSE)
                       ELSE [r EXCEPT !.pc = "check_suggestions"]
    /\ UNCHANGED <<locations, routes, feedback, routeFeedback, call, ncalls, req,
                   suggestions, bucket, mod, faults, sub, invoked, ana>>

\* check_duplicate handler: check_suggestions_table and the response.
check_duplicate_suggestions ==
    /\ chk.pc = "check_suggestions"
    /\ LET body == chk.body
           has_pending ==
               check_suggestions_table(suggestions, round_coordinate(body.lat),
                   round_coordinate(body.lng),
                   normalize_address(GetAttr(body, "address", <<>>))) # {"None"}
       IN  chk' = IF has_pending
                  THEN ChkFinish(chk, 200, TRUE, "None", TRUE)
                  ELSE ChkFinish(chk, 200, FALSE, "None", FALSE)
    /\ UNCHANGED <<locations, routes, feedback, routeFeedback, call, ncalls, req,
                   suggestions, bucket, mod, faults, sub, invoked, ana>>

\* Latitudes and longitudes around 32.7767, -96.7970; 3277769 is 0.001
\* degree from 3277669, and 3277675 lies halfway between two multiples of
\* 0.0001.
Latitudes == {3277669, 3277670, 3277675, 3277769}

Longitudes == {-9679700, -9679701}

\* "1 Ab" and "1  aB" normalize to one address; "9 Bb" is Location L1's.
Addresses ==
    {<<"1", " ", "A", "b">>, <<"1", " ", " ", "a", "B">>, <<"9", " ", "B", "b">>, <<>>}

\* Two places 0.001 degree apart, under each valid address.
SubmitBodies ==
    {[address |-> a, description |-> Description, lat |-> lat, lng |-> -9679700] :
        a \in Addresses \ {<<>>}, lat \in {3277670, 3277769}}

CheckBodies ==
    {[address |-> a, lat |-> lat, lng |-> lng] :
        a \in Addresses, lat \in Latitudes, lng \in Longitudes}
    \cup {[address |-> a] : a \in Addresses}

NextDetector ==
    \/ \E address \in {<<>>, <<"1", " ", "A", "b">>} :
          create_location("L3", address, 3277669, -9679701)
    \/ \E s \in SubSlots, body \in SubmitBodies :
          submit_suggestion_check_locations(s, "u1", body)
    \/ \E s \in SubSlots : submit_suggestion_check_suggestions(s)
    \/ \E s \in SubSlots : submit_suggestion_put(s, FALSE)
    \/ \E body \in CheckBodies : check_duplicate_locations(body)
    \/ check_duplicate_suggestions

SpecDetector == Init /\ [][NextDetector]_vars




----------------------------------------------------------------------------
(* Photo analysis: analyze_photo.py.  The Tag Merge & Deduplicator and the *)
(* enrichment of a Submission, one store call per step                     *)

\* sorted() compares strings by code point: the place of each character in
\* that order (space, digits, capital letters, small letters).
CodePointOf ==
    (" " :> 1) @@ ("1" :> 2) @@ ("9" :> 3) @@ ("A" :> 4) @@ ("B" :> 5) @@ ("C" :> 6)
    @@ ("D" :> 7) @@ ("E" :> 8) @@ ("F" :> 9) @@ ("G" :> 10) @@ ("H" :> 11) @@ ("I" :> 12)
    @@ ("J" :> 13) @@ ("K" :> 14) @@ ("L" :> 15) @@ ("M" :> 16) @@ ("N" :> 17) @@ ("O" :> 18)
    @@ ("P" :> 19) @@ ("Q" :> 20) @@ ("R" :> 21) @@ ("S" :> 22) @@ ("T" :> 23) @@ ("U" :> 24)
    @@ ("V" :> 25) @@ ("W" :> 26) @@ ("X" :> 27) @@ ("Y" :> 28) @@ ("Z" :> 29) @@ ("a" :> 30)
    @@ ("b" :> 31) @@ ("c" :> 32) @@ ("d" :> 33) @@ ("e" :> 34) @@ ("f" :> 35) @@ ("g" :> 36)
    @@ ("h" :> 37) @@ ("i" :> 38) @@ ("j" :> 39) @@ ("k" :> 40) @@ ("l" :> 41) @@ ("m" :> 42)
    @@ ("n" :> 43) @@ ("o" :> 44) @@ ("p" :> 45) @@ ("q" :> 46) @@ ("r" :> 47) @@ ("s" :> 48)
    @@ ("t" :> 49) @@ ("u" :> 50) @@ ("v" :> 51) @@ ("w" :> 52) @@ ("x" :> 53) @@ ("y" :> 54)
    @@ ("z" :> 55)

ord(c) == CodePointOf[c]

\* set(list)
set(list) == {list[n] : n \in DOMAIN list}

\* str <= str
str_le(a, b) ==
    LET common == IF Len(a) < Len(b) THEN Len(a) ELSE Len(b)
        differ == {n \in 1 .. common : a[n] # b[n]}
    IN  IF differ = {} THEN Len(a) <= Len(b)
        ELSE LET n == CHOOSE n \in differ : \A k \in differ : n <= k
             IN  ord(a[n]) < ord(b[n])

\* sorted(result)
RECURSIVE sorted(_)
sorted(list) ==
    IF list = <<>> THEN <<>>
    ELSE LET n == CHOOSE n \in DOMAIN list : \A k \in DOMAIN list : str_le(list[n], list[k])
         IN  <<list[n]>> \o sorted(SubSeq(list, 1, n - 1) \o SubSeq(list, n + 1, Len(list)))

RECURSIVE ascending(_)
ascending(items) ==
    IF items = {} THEN <<>>
    ELSE LET first == CHOOSE t \in items : \A u \in items : str_le(t, u)
         IN  <<first>> \o ascending(items \ {first})

reversed(list) == [n \in DOMAIN list |-> list[Len(list) + 1 - n]]

rotations(list) ==
    {SubSeq(list, k, Len(list)) \o SubSeq(list, 1, k - 1) : k \in DOMAIN list}

\* list(existing_items | new_items): the order a set is enumerated in is any
\* order.  Every order of a set of up to MaxShuffled tags is taken; of a larger
\* set, the rotations of the ascending and of the descending order.
list_of(items) ==
    IF Cardinality(items) <= MaxShuffled THEN Arrangements(items)
    ELSE rotations(ascending(items)) \cup rotations(reversed(ascending(items)))

\* set(tag.lower().split())
words(tag) == set(split(lower(tag)))

\* len(word_i) >= 4 and len(word_j) >= 4 and
\* word_i[:prefix_len] == word_j[:prefix_len], prefix_len = max(4, int(min_len * 0.7))
stem_match(word_i, word_j) ==
    LET min_len == IF Len(word_i) < Len(word_j) THEN Len(word_i) ELSE Len(word_j)
        scaled == (min_len * 7) \div 10
        prefix_len == IF scaled > 4 THEN scaled ELSE 4
    IN  /\ Len(word_i) >= 4
        /\ Len(word_j) >= 4
        /\ Slice(word_i, prefix_len) = Slice(word_j, prefix_len)

\* The words of unmatched_i the inner loop finds a stem match for.
stem_matches(unmatched_i, unmatched_j) ==
    Cardinality({word_i \in unmatched_i :
                    \E word_j \in unmatched_j : stem_match(word_i, word_j)})

\* Strategy 1: the words of one tag are a proper subset of the other's.
proper_subset(words_i, words_j) == words_i \subseteq words_j /\ words_i # words_j

\* Strategy 2 applies and finds the tags near-duplicates:
\* similarity_ratio == 1.0 and total_matches >= 2.
near_duplicate(tag_i, tag_j) ==
    LET words_i == words(tag_i)
        words_j == words(tag_j)
        overlap == words_i \cap words_j
        min_words == IF Cardinality(words_i) < Cardinality(words_j)
                     THEN Cardinality(words_i) ELSE Cardinality(words_j)
        total_matches == Cardinality(overlap)
                           + stem_matches(words_i \ overlap, words_j \ overlap)
    IN  /\ overlap # {} \/ (Cardinality(words_i) <= 2 /\ Cardinality(words_j) <= 2)
        /\ total_matches = min_words
        /\ total_matches >= 2

compare_tags_without_subset_rule(tag_i, tag_j) ==
    IF near_duplicate(tag_i, tag_j)
    THEN IF Len(tag_i) > Len(tag_j) THEN "remove_j" ELSE "remove_i"
    ELSE "keep"

\* One pass of the inner loop's body over the pair (tag_i, tag_j): which of
\* the two tags_to_remove gains, if any.
compare_tags(tag_i, tag_j) ==
    IF proper_subset(words(tag_i), words(tag_j)) THEN "remove_i"
    ELSE IF proper_subset(words(tag_j), words(tag_i)) THEN "remove_j"
    ELSE IF near_duplicate(tag_i, tag_j)
         THEN IF Len(tag_i) > Len(tag_j) THEN "remove_j" ELSE "remove_i"
         ELSE "keep"

\* The inner loop for tag_i, from tag_j on: tags_to_remove when it ends.
\* Removing tag_i breaks out of the loop, removing tag_j does not.
RECURSIVE inner_loop(_, _, _, _)
inner_loop(tags, i, j, removed) ==
    IF j > Len(tags) THEN removed
    ELSE IF i >= j \/ tags[j] \in removed THEN inner_loop(tags, i, j + 1, removed)
    ELSE LET outcome == compare_tags(tags[i], tags[j]) IN
         IF outcome = "remove_i" THEN removed \cup {tags[i]}
         ELSE IF outcome = "remove_j"
         THEN inner_loop(tags, i, j + 1, removed \cup {tags[j]})
         ELSE inner_loop(tags, i, j + 1, removed)

\* The outer loop, from tag_i on: tags_to_remove at the end.  A tag that
\* is already to be removed is skipped.
RECURSIVE tags_to_remove(_, _, _)
tags_to_remove(tags, i, removed) ==
    IF i > Len(tags) THEN removed
    ELSE IF tags[i] \in removed THEN tags_to_remove(tags, i + 1, removed)
    ELSE tags_to_remove(tags, i + 1, inner_loop(tags, i, 1, removed))

deduplicate_tags_semantically(tags) ==
    IF Len(tags) <= 1 THEN tags
    ELSE LET removed == tags_to_remove(tags, 1, {})
         IN  sorted(SelectSeq(tags, LAMBDA tag : tag \notin removed))

\* quality_levels.get(quality, 0)
quality_levels(quality) ==
    IF quality = "minimal" THEN 1
    ELSE IF quality = "moderate" THEN 2
    ELSE IF quality = "impressive" THEN 3
    ELSE IF quality = "spectacular" THEN 4
    ELSE 0

\* The update expression without ", flaggedForReview = :flagged".
update_expr_without_flag(suggestion, analysis, merged_items) ==
    [detectedTags |-> Slice(deduplicate_tags_semantically(merged_items), MAX_TAGS)]
    @@ (IF /\ analysis.is_christmas_display
           /\ analysis.description # <<>>
           /\ \/ GetAttr(suggestion, "aiDescription", <<>>) = <<>>
              \/ Len(analysis.description) > Len(GetAttr(suggestion, "aiDescription", <<>>))
        THEN [aiDescription |-> analysis.description] ELSE EmptyTable)
    @@ (IF /\ analysis.is_christmas_display
           /\ quality_levels(analysis.display_quality) >
                  quality_levels(GetAttr(suggestion, "displayQuality", "minimal"))
        THEN [displayQuality |-> analysis.display_quality] ELSE EmptyTable)

\* update_suggestion_tags: the attributes the update expression sets, for the
\* Submission read, the analysis and the order list() gave the merged set.
update_expr(suggestion, analysis, merged_items) ==
    LET ai_description == analysis.description
        new_quality == analysis.display_quality
        existing_quality == GetAttr(suggestion, "displayQuality", "minimal")
        tags == [detectedTags |->
                    Slice(deduplicate_tags_semantically(merged_items), MAX_TAGS)]
        desc == IF /\ analysis.is_christmas_display
                   /\ ai_description # <<>>
                   /\ \/ GetAttr(suggestion, "aiDescription", <<>>) = <<>>
                      \/ Len(ai_description) > Len(GetAttr(suggestion, "aiDescription", <<>>))
                THEN [aiDescription |-> ai_description] ELSE EmptyTable
        quality == IF /\ analysis.is_christmas_display
                      /\ quality_levels(new_quality) > quality_levels(existing_quality)
                   THEN [displayQuality |-> new_quality] ELSE EmptyTable
        flagged == IF ~analysis.is_christmas_display
                   THEN [flaggedForReview |-> TRUE] ELSE EmptyTable
    IN  tags @@ desc @@ quality @@ flagged

\* One event is taken from those in flight.
consume(events, photo_key) ==
    IF events[photo_key] = 1
    THEN [k \in DOMAIN events \ {photo_key} |-> events[k]]
    ELSE [events EXCEPT ![photo_key] = @ - 1]

\* find_suggestion_by_photo_key: the pending Submissions that name the key.
find_suggestion_by_photo_key(photo_key) ==
    {sid \in DOMAIN suggestions :
        /\ photo_key \in set(GetAttr(suggestions[sid], "photos", <<>>))
        /\ GetAttr(suggestions[sid], "status", "None") = "pending"}

\* handler: one record of an event; the key is looked up, items[0] is any of
\* the Submissions the scan returns.
analyze_photo_handler(a, photo_key) ==
    /\ ana[a].pc = "idle"
    /\ photo_key \in DOMAIN invoked
    /\ invoked' = consume(invoked, photo_key)
    /\ LET items == find_suggestion_by_photo_key(photo_key) IN
         IF ~startswith_pending(photo_key) \/ items = {}
         THEN ana' = ana
         ELSE \E sid \in items :
                ana' = [ana EXCEPT ![a] =
                          [IdleAna EXCEPT !.pc = "analyze", !.key = photo_key,
                                          !.suggestion_id = sid]]
    /\ UNCHANGED <<locations, routes, feedback, routeFeedback, call, ncalls, req,
                   suggestions, bucket, mod, faults, sub, chk>>

\* analyze_photo: the vision model answers, or the call raises and the
\* handler goes on to its next record.
analyze_photo(a, analysis, raised) ==
    /\ ana[a].pc = "analyze"
    /\ ana' = [ana EXCEPT ![a] =
                 IF raised THEN IdleAna
                 ELSE [@ EXCEPT !.pc = "get", !.analysis = analysis]]
    /\ UNCHANGED <<locations, routes, feedback, routeFeedback, call, ncalls, req,
                   suggestions, bucket, mod, faults, sub, chk, invoked>>

max_retries == 5

\* except ClientError: the codes after which the call is tried again.
TransientErrors == {"ServiceUnavailableException", "ThrottlingException"}

\* What an empty answer of the model stands for.
default_analysis ==
    [featured_items |-> <<>>, description |-> <<>>, display_quality |-> "moderate",
     is_christmas_display |-> TRUE]

\* error_code in (...) and attempt < max_retries - 1
retry_always(error_code, attempt) == TRUE

should_retry(error_code, attempt) ==
    error_code \in TransientErrors /\ attempt < max_retries - 1

\* analyze_photo, one turn of "for attempt in range(max_retries)": the model
\* is invoked and answers with an analysis (error_code "None"), or raises a
\* ClientError with error_code.  After a retry the loop goes on; when the
\* loop is exhausted the default analysis is returned; an error that is not
\* retried is raised, and the handler goes on to its next record.
invoke_model(a, analysis, error_code) ==
    /\ ana[a].pc = "analyze"
    /\ ana[a].attempt < max_retries
    /\ ana' = [ana EXCEPT ![a] =
          IF error_code = "None"
          THEN [@ EXCEPT !.pc = "get", !.analysis = analysis, !.error_code = "None"]
          ELSE IF should_retry(error_code, ana[a].attempt)
          THEN IF ana[a].attempt + 1 < max_retries
               THEN [@ EXCEPT !.attempt = @ + 1, !.error_code = error_code]
               ELSE [@ EXCEPT !.pc = "get", !.analysis = default_analysis,
                              !.attempt = @ + 1, !.error_code = error_code]
          ELSE [IdleAna EXCEPT !.attempt = ana[a].attempt, !.error_code = error_code]]
    /\ UNCHANGED <<locations, routes, feedback, routeFeedback, call, ncalls, req,
                   suggestions, bucket, mod, faults, sub, chk, invoked>>

\* update_suggestion_tags: get_item, then the merge in the order list() gives
\* the union of the two sets; a Submission not found ends the step.
update_suggestion_tags_get(a) ==
    /\ ana[a].pc = "get"
    /\ IF ~HasItem(suggestions, ana[a].suggestion_id)
       THEN ana' = [ana EXCEPT ![a] = IdleAna]
       ELSE LET suggestion == suggestions[ana[a].suggestion_id]
                existing_items == set(GetAttr(suggestion, "detectedTags", <<>>))
                new_items == set(ana[a].analysis.featured_items)
            IN  \E merged_items \in list_of(existing_items \cup new_items) :
                  ana' = [ana EXCEPT ![a] =
                            [@ EXCEPT !.pc = "update", !.merged_items = merged_items,
                                      !.update = update_expr(suggestion, ana[a].analysis,
                                                             merged_items)]]
    /\ UNCHANGED <<locations, routes, feedback, routeFeedback, call, ncalls, req,
                   suggestions, bucket, mod, faults, sub, chk, invoked>>

\* suggestions_table.update_item(...): a ClientError is raised again and the
\* handler goes on to its next record.
update_suggestion_tags_update(a, fail) ==
    /\ ana[a].pc = "update"
    /\ Raises(fail)
    /\ suggestions' = IF fail THEN suggestions
                      ELSE UpdateSet(suggestions, ana[a].suggestion_id, ana[a].update)
    /\ ana' = [ana EXCEPT ![a] = IdleAna]
    /\ UNCHANGED <<locations, routes, feedback, routeFeedback, call, ncalls, req,
                   bucket, mod, sub, chk, invoked>>

----------------------------------------------------------------------------
(* The Tag Merge & Deduplicator at work: the analyses of a Submission's    *)
(* photos propose tags, in any order                                       *)

\* "snowman figures"
SnowmanFigures ==
    <<"s", "n", "o", "w", "m", "a", "n", " ", "f", "i", "g", "u", "r", "e", "s">>

\* "inflatable snowmen"
InflatableSnowmen ==
    <<"i", "n", "f", "l", "a", "t", "a", "b", "l", "e", " ", "s", "n", "o", "w", "m", "e", "n">>

\* "gingerbread inflatables"
GingerbreadInflatables ==
    <<"g", "i", "n", "g", "e", "r", "b", "r", "e", "a", "d", " ", "i", "n", "f", "l", "a", "t", "a", "b", "l", "e", "s">>

\* "reindeer"
Reindeer ==
    <<"r", "e", "i", "n", "d", "e", "e", "r">>

\* "reindeer figures"
ReindeerFigures ==
    <<"r", "e", "i", "n", "d", "e", "e", "r", " ", "f", "i", "g", "u", "r", "e", "s">>

\* "white reindeer figures"
WhiteReindeerFigures ==
    <<"w", "h", "i", "t", "e", " ", "r", "e", "i", "n", "d", "e", "e", "r", " ", "f", "i", "g", "u", "r", "e", "s">>

\* "white reindeers figures"
WhiteReindeersFigures ==
    <<"w", "h", "i", "t", "e", " ", "r", "e", "i", "n", "d", "e", "e", "r", "s", " ", "f", "i", "g", "u", "r", "e", "s">>

\* "snowmen and snowflake lights"
SnowmenAndSnowflakeLights ==
    <<"s", "n", "o", "w", "m", "e", "n", " ", "a", "n", "d", " ", "s", "n", "o", "w", "f", "l", "a", "k", "e", " ", "l", "i", "g", "h", "t", "s">>

\* "snowman and trees"
SnowmanAndTrees ==
    <<"s", "n", "o", "w", "m", "a", "n", " ", "a", "n", "d", " ", "t", "r", "e", "e", "s">>

TagPool ==
    {SnowmanFigures, InflatableSnowmen, GingerbreadInflatables, Reindeer, ReindeerFigures,
     WhiteReindeerFigures, WhiteReindeersFigures, SnowmenAndSnowflakeLights,
     SnowmanAndTrees}

\* The lists of featured items an analysis returns: one or two tags.
FeaturedItems == {<<tag>> : tag \in TagPool} \cup (TagPool \X TagPool)

\* The analyses of a valid display, of moderate quality, without description.
TagAnalyses ==
    {[featured_items |-> items, description |-> <<>>, display_quality |-> "moderate",
      is_christmas_display |-> TRUE] : items \in FeaturedItems}

NextTags ==
    \/ upload_photo("u1", "a.jpg")
    \/ \E body \in NewLocationBodies : submit_suggestion_check_locations(1, "u1", body)
    \/ submit_suggestion_check_suggestions(1)
    \/ submit_suggestion_put(1, FALSE)
    \/ \E photo_key \in DOMAIN invoked : analyze_photo_handler(1, photo_key)
    \/ \E analysis \in TagAnalyses, raised \in BOOLEAN : analyze_photo(1, analysis, raised)
    \/ update_suggestion_tags_get(1)
    \/ \E fail \in BOOLEAN : update_suggestion_tags_update(1, fail)

SpecTags == Init /\ [][NextTags]_vars

----------------------------------------------------------------------------
(* submitEntry over valid, invalid and duplicate bodies, by two requests   *)

\* Bodies that name the submitter's staged photo: one that passes, one for
\* each validation failure, and two at the place or address of Location L1.
SubmitEntryBodies ==
    LET valid == NewLocationBody(<<PhotoKey("u1", "a.jpg")>>) IN
    {valid,
     NewLocationBody(<<>>),
     [valid EXCEPT !.address = <<" ">>],
     [valid EXCEPT !.description = <<"d", "d">>],
     [address |-> valid.address, description |-> valid.description,
      lng |-> valid.lng, photos |-> valid.photos],
     [valid EXCEPT !.address = <<"A", "b">>],
     [valid EXCEPT !.lat = 3277700, !.lng = -9679700],
     [valid EXCEPT !.address = <<"9", " ", "B", "b">>]}

NextSubmit ==
    \/ upload_photo("u1", "a.jpg")
    \/ \E s \in SubSlots, body \in SubmitEntryBodies :
          submit_suggestion_check_locations(s, "u1", body)
    \/ \E s \in SubSlots : submit_suggestion_check_suggestions(s)
    \/ \E s \in SubSlots, fail \in BOOLEAN : submit_suggestion_put(s, fail)

SpecSubmit == Init /\ [][NextSubmit]_vars

----------------------------------------------------------------------------
(* Photos added to a Location that already has tags: an admin edits the    *)
(* Location, a photo_update is submitted, analysed and approved            *)

\* update_location.py: the admin's PUT /locations/{id}. get_item answers 404
\* for a Location that is not there; the allowed fields of the body and
\* updatedAt are SET by update_item, a ClientError is answered with 500.
update_location(location_id, body, fail) ==
    /\ HasItem(locations, location_id)
    /\ Raises(fail)
    /\ locations' = IF fail THEN locations
                    ELSE UpdateSet(locations, location_id,
                                   body @@ [updatedAt |-> now])
    /\ UNCHANGED <<routes, feedback, routeFeedback, call, ncalls, req,
                   suggestions, bucket, mod, sub, chk, invoked, ana>>

\* The admin sets the Location's decorations.
LocationUpdates == {[decorations |-> <<GingerbreadInflatables>>]}

\* What the analysis of the photo may return.
PhotoUpdateAnalyses ==
    {[featured_items |-> <<InflatableSnowmen>>, description |-> <<"d">>,
      display_quality |-> "impressive", is_christmas_display |-> TRUE],
     [featured_items |-> <<ReindeerFigures, WhiteReindeerFigures>>,
      description |-> <<>>, display_quality |-> "moderate",
      is_christmas_display |-> TRUE]}

NextPhotoUpdate ==
    \/ \E body \in LocationUpdates, fail \in BOOLEAN : update_location("L1", body, fail)
    \/ upload_photo("u1", "a.jpg")
    \/ handle_photo_update_get(1, "u1", PhotoUpdateBody("L1", <<PhotoKey("u1", "a.jpg")>>))
    \/ handle_photo_update_scan(1)
    \/ \E fail \in BOOLEAN : handle_photo_update_put(1, fail)
    \/ \E photo_key \in DOMAIN invoked : analyze_photo_handler(1, photo_key)
    \/ \E analysis \in PhotoUpdateAnalyses, raised \in BOOLEAN :
          analyze_photo(1, analysis, raised)
    \/ update_suggestion_tags_get(1)
    \/ \E fail \in BOOLEAN : update_suggestion_tags_update(1, fail)
    \/ \E m \in Mods : approve_suggestion_get(m, NewSuggestionId(1), "m1")
    \/ \E m \in Mods : handle_photo_update_approval(m)

SpecPhotoUpdate == Init /\ [][NextPhotoUpdate]_vars

----------------------------------------------------------------------------
(* Analyses that propose many tags: the merged list outgrows the cap       *)

\* Six one-word tags, as the model lists them, not in order.
FirstItems == << <<"k">>, <<"a">>, <<"c">>, <<"e">>, <<"g">>, <<"i">> >>

SecondItems == << <<"b">>, <<"d">>, <<"f">>, <<"h">>, <<"j">>, <<"l">> >>

\* A list that names one tag twice, and a capital before it.
RepeatedItems == << <<"a">>, <<"B">>, <<"a">> >>

ManyItems == {FirstItems, SecondItems, RepeatedItems, <<>>, << <<"z">> >>}

CapAnalyses ==
    {[featured_items |-> items, description |-> <<>>, display_quality |-> "moderate",
      is_christmas_display |-> TRUE] : items \in ManyItems}

NextCap ==
    \/ upload_photo("u1", "a.jpg")
    \/ submit_suggestion_check_locations(1, "u1",
          NewLocationBody(<<PhotoKey("u1", "a.jpg")>>))
    \/ submit_suggestion_check_suggestions(1)
    \/ submit_suggestion_put(1, FALSE)
    \/ \E photo_key \in DOMAIN invoked : analyze_photo_handler(1, photo_key)
    \/ \E analysis \in CapAnalyses, raised \in BOOLEAN : analyze_photo(1, analysis, raised)
    \/ update_suggestion_tags_get(1)
    \/ \E fail \in BOOLEAN : update_suggestion_tags_update(1, fail)

SpecCap == Init /\ [][NextCap]_vars

----------------------------------------------------------------------------
(* Tags that differ in letter case or have equal length, merged in any     *)
(* order                                                                   *)

\* "word signs"
WordSigns == <<"w", "o", "r", "d", " ", "s", "i", "g", "n", "s">>

\* "WORD SIGNS"
WordSignsUpper == <<"W", "O", "R", "D", " ", "S", "I", "G", "N", "S">>

\* "JOY signs"
JoySigns == <<"J", "O", "Y", " ", "s", "i", "g", "n", "s">>

\* "snowmen figures"
SnowmenFigures ==
    <<"s", "n", "o", "w", "m", "e", "n", " ", "f", "i", "g", "u", "r", "e", "s">>

CaseTagPool == {WordSigns, WordSignsUpper, JoySigns, SnowmanFigures, SnowmenFigures}

CaseAnalyses ==
    {[featured_items |-> items, description |-> <<>>, display_quality |-> "moderate",
      is_christmas_display |-> TRUE] :
        items \in {<<tag>> : tag \in CaseTagPool} \cup (CaseTagPool \X CaseTagPool)}

NextOrder ==
    \/ upload_photo("u1", "a.jpg")
    \/ submit_suggestion_check_locations(1, "u1",
          NewLocationBody(<<PhotoKey("u1", "a.jpg")>>))
    \/ submit_suggestion_check_suggestions(1)
    \/ submit_suggestion_put(1, FALSE)
    \/ \E photo_key \in DOMAIN invoked : analyze_photo_handler(1, photo_key)
    \/ \E analysis \in CaseAnalyses, raised \in BOOLEAN : analyze_photo(1, analysis, raised)
    \/ update_suggestion_tags_get(1)
    \/ \E fail \in BOOLEAN : update_suggestion_tags_update(1, fail)

SpecOrder == Init /\ [][NextOrder]_vars

----------------------------------------------------------------------------
(* The analyses of a Submission's two photos, triggered together and run   *)
(* by two invocations of the analysis handler at once                      *)

TwoPhotos == <<PhotoKey("u1", "a.jpg"), PhotoKey("u1", "b.jpg")>>

\* What the vision model may say of a photo.
EnrichAnalyses ==
    {[featured_items |-> <<InflatableSnowmen>>, description |-> <<>>,
      display_quality |-> "spectacular", is_christmas_display |-> TRUE],
     [featured_items |-> <<GingerbreadInflatables>>, description |-> <<>>,
      display_quality |-> "moderate", is_christmas_display |-> TRUE],
     [featured_items |-> <<GingerbreadInflatables>>, description |-> <<>>,
      display_quality |-> "spectacular", is_christmas_display |-> FALSE]}

NextEnrich ==
    \/ \E photo_id \in {"a.jpg", "b.jpg"} : upload_photo("u1", photo_id)
    \/ submit_suggestion_check_locations(1, "u1", NewLocationBody(TwoPhotos))
    \/ submit_suggestion_check_suggestions(1)
    \/ submit_suggestion_put(1, FALSE)
    \/ \E a \in AnaSlots, photo_key \in DOMAIN invoked : analyze_photo_handler(a, photo_key)
    \/ \E a \in AnaSlots, analysis \in EnrichAnalyses, raised \in BOOLEAN :
          analyze_photo(a, analysis, raised)
    \/ \E a \in AnaSlots : update_suggestion_tags_get(a)
    \/ \E a \in AnaSlots, fail \in BOOLEAN : update_suggestion_tags_update(a, fail)

SpecEnrich == Init /\ [][NextEnrich]_vars

----------------------------------------------------------------------------
(* A photo judged not to show a display: the Submission is flagged, and a  *)
(* moderator approves or rejects it                                        *)

\* The vision model finds no display in one photo and a display in another.
FlagAnalyses ==
    {[featured_items |-> <<InflatableSnowmen>>, description |-> <<>>,
      display_quality |-> "minimal", is_christmas_display |-> FALSE],
     [featured_items |-> <<GingerbreadInflatables>>, description |-> <<"d">>,
      display_quality |-> "impressive", is_christmas_display |-> TRUE]}

NextFlagged ==
    \/ \E photo_id \in {"a.jpg", "b.jpg"} : upload_photo("u1", photo_id)
    \/ submit_suggestion_check_locations(1, "u1", NewLocationBody(TwoPhotos))
    \/ submit_suggestion_check_suggestions(1)
    \/ submit_suggestion_put(1, FALSE)
    \/ \E photo_key \in DOMAIN invoked : analyze_photo_handler(1, photo_key)
    \/ \E analysis \in FlagAnalyses, raised \in BOOLEAN : analyze_photo(1, analysis, raised)
    \/ update_suggestion_tags_get(1)
    \/ \E fail \in BOOLEAN : update_suggestion_tags_update(1, fail)
    \/ approve_suggestion(1)
    \/ reject_suggestion(1)

SpecFlagged == Init /\ [][NextFlagged]_vars

----------------------------------------------------------------------------
(* update_suggestion.py: an admin edits a Submission before approval       *)

\* Fields that can be updated by admin
ALLOWED_UPDATE_FIELDS ==
    {"description", "aiDescription", "detectedTags", "categories", "theme",
     "displayQuality"}

\* get_item and the checks that follow it: the Submission must be there and
\* pending, and the body must name an allowed field.
update_suggestion_get(m, sid, body) ==
    /\ mod[m].pc = "idle"
    /\ mod[m].kind = "none"
    /\ ModCanStart(m)
    /\ LET r == [mod[m] EXCEPT !.kind = "edit", !.sid = sid]
           fields == DOMAIN body \cap ALLOWED_UPDATE_FIELDS
           updates == [field \in fields |-> body[field]]
       IN  mod' = [mod EXCEPT ![m] =
              IF ~HasItem(suggestions, sid)
              THEN Finish(r, 404, "Suggestion not found")
              ELSE IF GetAttr(suggestions[sid], "status", "None") # "pending"
              THEN Finish(r, 400, "Can only edit pending suggestions")
              ELSE IF fields = {}
              THEN Finish(r, 400, "No valid fields to update")
              ELSE [r EXCEPT !.pc = "edit", !.updates = updates @@ [updatedAt |-> now]]]
    /\ UNCHANGED <<locations, routes, feedback, routeFeedback, call, ncalls, req,
                   suggestions, bucket, faults, sub, chk, invoked, ana>>

\* suggestions_table.update_item: SET every field of updates.
update_suggestion_update(m, fail) ==
    /\ ModAt(m, "edit", "edit")
    /\ Raises(fail)
    /\ IF fail
       THEN /\ mod' = [mod EXCEPT ![m] = Finish(@, 500, "Failed to update suggestion")]
            /\ UNCHANGED suggestions
       ELSE /\ suggestions' = UpdateSet(suggestions, mod[m].sid, mod[m].updates)
            /\ mod' = [mod EXCEPT ![m] = Finish(@, 200, "Suggestion updated successfully")]
    /\ UNCHANGED <<locations, routes, feedback, routeFeedback, call, ncalls, req,
                   bucket, sub, chk, invoked, ana>>

\* The bodies of the admin's PUT: a description, AI fields, and a body that
\* names no allowed field.
EditBodies ==
    {[description |-> <<"e">>],
     [detectedTags |-> <<Reindeer>>, displayQuality |-> "minimal"],
     [status |-> "approved"]}

EditAnalyses ==
    {[featured_items |-> <<InflatableSnowmen>>, description |-> <<"d">>,
      display_quality |-> "impressive", is_christmas_display |-> TRUE]}

NextEdit ==
    \/ upload_photo("u1", "a.jpg")
    \/ submit_suggestion_check_locations(1, "u1",
          NewLocationBody(<<PhotoKey("u1", "a.jpg")>>))
    \/ submit_suggestion_check_suggestions(1)
    \/ submit_suggestion_put(1, FALSE)
    \/ \E photo_key \in DOMAIN invoked : analyze_photo_handler(1, photo_key)
    \/ \E analysis \in EditAnalyses, raised \in BOOLEAN : analyze_photo(1, analysis, raised)
    \/ update_suggestion_tags_get(1)
    \/ \E fail \in BOOLEAN : update_suggestion_tags_update(1, fail)
    \/ \E m \in Mods, body \in EditBodies : update_suggestion_get(m, NewSuggestionId(1), body)
    \/ \E m \in Mods, fail \in BOOLEAN : update_suggestion_update(m, fail)
    \/ \E m \in Mods : approve_suggestion(m)
    \/ \E m \in Mods : reject_suggestion(m)

SpecEdit == Init /\ [][NextEdit]_vars

----------------------------------------------------------------------------
(* The vision call fails and is tried again: every invocation of the model *)
(* answers or raises, and the handler runs each record to its end          *)

ErrorCodes == TransientErrors \cup {"ValidationException"}

RetryAnalyses ==
    {[featured_items |-> <<InflatableSnowmen>>, description |-> <<"d">>,
      display_quality |-> "impressive", is_christmas_display |-> TRUE],
     [featured_items |-> <<GingerbreadInflatables>>, description |-> <<>>,
      display_quality |-> "minimal", is_christmas_display |-> FALSE]}

\* The call of the model by the handler once it holds a record.
bedrock_invoke_model ==
    \/ \E analysis \in RetryAnalyses : invoke_model(1, analysis, "None")
    \/ \E error_code \in ErrorCodes : invoke_model(1, default_analysis, error_code)

NextRetry ==
    \/ upload_photo("u1", "a.jpg")
    \/ submit_suggestion_check_locations(1, "u1",
          NewLocationBody(<<PhotoKey("u1", "a.jpg")>>))
    \/ submit_suggestion_check_suggestions(1)
    \/ submit_suggestion_put(1, FALSE)
    \/ \E photo_key \in DOMAIN invoked : analyze_photo_handler(1, photo_key)
    \/ bedrock_invoke_model
    \/ update_suggestion_tags_get(1)
    \/ \E fail \in BOOLEAN : update_suggestion_tags_update(1, fail)

\* The Lambda runtime runs an invocation of the handler to its end: a step
\* of the handler that can be taken is taken.  The step that reads the
\* Submission can be taken exactly when the handler is at "get", and its
\* weak fairness is written out with that condition.
SpecRetry ==
    /\ Init /\ [][NextRetry]_vars
    /\ WF_vars(bedrock_invoke_model)
    /\ ([]<>(ana[1].pc # "get") \/ []<><<update_suggestion_tags_get(1)>>_vars)
    /\ WF_vars(\E fail \in BOOLEAN : update_suggestion_tags_update(1, fail))

----------------------------------------------------------------------------
(* report_inactive.py: POST /locations/{id}/report                         *)

\* Number of reports before flagging
REPORT_THRESHOLD == 3

\* "id": str(uuid4()): an id no other request has.
ReportId(p) == "report-" \o ToString(p)

ReportItem(p, user, location_id) ==
    [id |-> ReportId(p), locationId |-> location_id, userId |-> user, type |-> "report"]

\* locations_table.get(location_id); not_found_error when it is missing
report_inactive_get(p, user, location_id) ==
    /\ CanStart(p)
    /\ LET r == Arrive(p, "report_inactive", user, location_id, "report")
       IN  Begin(p, IF HasItem(locations, location_id)
                    THEN [Goto(r, "query") EXCEPT !.location_status =
                            GetAttr(locations[location_id], "status", "None")]
                    ELSE Respond(r, 404, "not_found"))
    /\ UNCHANGED <<locations, routes, feedback, routeFeedback, call, ncalls,
                 suggestions, bucket, mod, faults, sub, chk, invoked, ana>>

\* existing = feedback_table.get_user_feedback(location_id, user, "report");
\* "You have already reported this location."
report_inactive_query(p) ==
    /\ At(p, "report_inactive", "query")
    /\ \E existing \in get_user_feedback(feedback, req[p].target, req[p].user, "report") :
          req' = [req EXCEPT ![p] =
                    IF existing # "None"
                    THEN Respond(@, 200, "alreadyReported")
                    ELSE Goto(@, "create")]
    /\ UNCHANGED <<locations, routes, feedback, routeFeedback, call, ncalls,
                 suggestions, bucket, mod, faults, sub, chk, invoked, ana>>

\* feedback_table.create({...}): put_item without condition
report_inactive_create(p) ==
    /\ At(p, "report_inactive", "create")
    /\ feedback' = put_item(feedback, FeedbackKey(ReportId(p), req[p].target),
                            ReportItem(p, req[p].user, req[p].target))
    /\ req' = [req EXCEPT ![p] = Goto(@, "increment")]
    /\ UNCHANGED <<locations, routes, routeFeedback, call, ncalls,
                 suggestions, bucket, mod, faults, sub, chk, invoked, ana>>

\* new_count = locations_table.increment_report_count(location_id), and
\* whether the threshold is reached for a Location that was active when read
report_inactive_increment(p) ==
    /\ At(p, "report_inactive", "increment")
    /\ locations' = increment_report_count(locations, req[p].target)
    /\ LET new_count == GetAttr(locations'[req[p].target], "reportCount", 0) IN
         req' = [req EXCEPT ![p] =
                   IF new_count >= REPORT_THRESHOLD /\ req[p].location_status = "active"
                   THEN Goto(@, "flag")
                   ELSE Respond(@, 200, "reported")]
    /\ UNCHANGED <<routes, feedback, routeFeedback, call, ncalls,
                 suggestions, bucket, mod, faults, sub, chk, invoked, ana>>

\* locations_table.update(location_id, {"status": "flagged"})
report_inactive_flag(p) ==
    /\ At(p, "report_inactive", "flag")
    /\ locations' = UpdateSet(locations, req[p].target, [status |-> "flagged"])
    /\ req' = [req EXCEPT ![p] = Respond(@, 200, "flagged")]
    /\ UNCHANGED <<routes, feedback, routeFeedback, call, ncalls,
                 suggestions, bucket, mod, faults, sub, chk, invoked, ana>>

\* Reports of Location L1 by two users, in any interleaving.
NextReport ==
    \/ \E p \in Slots, user \in Users : report_inactive_get(p, user, "L1")
    \/ \E p \in Slots : report_inactive_query(p)
    \/ \E p \in Slots : report_inactive_create(p)
    \/ \E p \in Slots : report_inactive_increment(p)
    \/ \E p \in Slots : report_inactive_flag(p)

SpecReport == Init /\ [][NextReport]_vars

----------------------------------------------------------------------------
(* Deleting an entity while it is reacted to, viewed or reported:          *)
(* delete_location.py, delete_route.py, get_location_by_id.py,             *)
(* get_route_by_id.py                                                      *)

\* ---- GET /locations/{id}: get_location_by_id.py

\* location = locations_table.get(location_id); not_found_error
get_location_by_id_get(p, location_id) ==
    /\ CanStart(p)
    /\ LET r == Arrive(p, "get_location_by_id", "none", location_id, "view")
       IN  Begin(p, IF HasItem(locations, location_id)
                    THEN Goto(r, "increment")
                    ELSE Respond(r, 404, "not_found"))
    /\ UNCHANGED <<locations, routes, feedback, routeFeedback, call, ncalls,
                 suggestions, bucket, mod, faults, sub, chk, invoked, ana>>

\* locations_table.increment_view_count(location_id); success_response
get_location_by_id_increment(p) ==
    /\ At(p, "get_location_by_id", "increment")
    /\ locations' = increment_view_count(locations, req[p].target)
    /\ req' = [req EXCEPT ![p] = Respond(@, 200, "viewed")]
    /\ UNCHANGED <<routes, feedback, routeFeedback, call, ncalls,
                 suggestions, bucket, mod, faults, sub, chk, invoked, ana>>

\* ---- GET /routes/{id}: get_route_by_id.py

\* route = routes_table.get(route_id); not_found_error, also for a draft
\* that the caller, who is not signed in, does not own
get_route_by_id_get(p, route_id) ==
    /\ CanStart(p)
    /\ LET r == Arrive(p, "get_route_by_id", "none", route_id, "view")
       IN  Begin(p, IF ~HasItem(routes, route_id)
                    THEN Respond(r, 404, "not_found")
                    ELSE IF GetAttr(routes[route_id], "status", "None") = "draft"
                    THEN Respond(r, 404, "not_found")
                    ELSE Goto(r, "increment"))
    /\ UNCHANGED <<locations, routes, feedback, routeFeedback, call, ncalls,
                 suggestions, bucket, mod, faults, sub, chk, invoked, ana>>

\* routes_table.increment_start_count(route_id); success_response
get_route_by_id_increment(p) ==
    /\ At(p, "get_route_by_id", "increment")
    /\ routes' = increment_start_count(routes, req[p].target)
    /\ req' = [req EXCEPT ![p] = Respond(@, 200, "viewed")]
    /\ UNCHANGED <<locations, feedback, routeFeedback, call, ncalls,
                 suggestions, bucket, mod, faults, sub, chk, invoked, ana>>

\* ---- DELETE /locations/{id}, an admin: delete_location.py

\* The object key of a photo the Location lists: a CDN URL names the
\* object under approved/, a key names itself, anything else is skipped.
photo_object_keys(photos) ==
    {ApprovedKey(photos[i][2], photos[i][3]) :
        i \in {j \in DOMAIN photos : photos[j][1] = "cdn"}}
    \cup {photos[i] : i \in {j \in DOMAIN photos : photos[j][1] \in {"approved", "pending"}}}

\* locations_table.get_item(...); 404 "Location not found"; then every
\* photo of the Location is deleted from the bucket (errors are printed)
delete_location_get(p, location_id) ==
    /\ CanStart(p)
    /\ LET r == Arrive(p, "delete_location", "admin", location_id, "delete")
       IN  IF HasItem(locations, location_id)
           THEN /\ Begin(p, Goto(r, "feedback"))
                /\ bucket' = bucket \ photo_object_keys(
                                 GetAttr(locations[location_id], "photos", <<>>))
           ELSE /\ Begin(p, Respond(r, 404, "not_found"))
                /\ UNCHANGED bucket
    /\ UNCHANGED <<locations, routes, feedback, routeFeedback, call, ncalls,
                 suggestions, mod, faults, sub, chk, invoked, ana>>

\* feedback_table.scan(locationId = :locId) and delete_item of each item
delete_location_feedback(p) ==
    /\ At(p, "delete_location", "feedback")
    /\ feedback' = [k \in {q \in DOMAIN feedback :
                             feedback[q].locationId # req[p].target} |-> feedback[k]]
    /\ req' = [req EXCEPT ![p] = Goto(@, "delete")]
    /\ UNCHANGED <<locations, routes, routeFeedback, call, ncalls,
                 suggestions, bucket, mod, faults, sub, chk, invoked, ana>>

\* locations_table.delete_item(Key=location#id/metadata); 200
delete_location_delete(p) ==
    /\ At(p, "delete_location", "delete")
    /\ locations' = delete_item(locations, req[p].target)
    /\ req' = [req EXCEPT ![p] = Respond(@, 200, "deleted")]
    /\ UNCHANGED <<routes, feedback, routeFeedback, call, ncalls,
                 suggestions, bucket, mod, faults, sub, chk, invoked, ana>>

\* ---- DELETE /routes/{id}, its creator: delete_route.py

\* route = routes_table.get(route_id); not_found_error; 403 "You can only
\* delete your own routes"
delete_route_get(p, user, route_id) ==
    /\ CanStart(p)
    /\ LET r == Arrive(p, "delete_route", user, route_id, "delete")
       IN  Begin(p, IF ~HasItem(routes, route_id)
                    THEN Respond(r, 404, "not_found")
                    ELSE IF GetAttr(routes[route_id], "createdBy", "None") # user
                    THEN Respond(r, 403, "forbidden")
                    ELSE Goto(r, "feedback"))
    /\ UNCHANGED <<locations, routes, feedback, routeFeedback, call, ncalls,
                 suggestions, bucket, mod, faults, sub, chk, invoked, ana>>

\* feedback_table.delete_all_for_route(route_id)
delete_route_feedback(p) ==
    /\ At(p, "delete_route", "feedback")
    /\ routeFeedback' = [k \in {q \in DOMAIN routeFeedback :
                                  routeFeedback[q].routeId # req[p].target}
                            |-> routeFeedback[k]]
    /\ req' = [req EXCEPT ![p] = Goto(@, "delete")]
    /\ UNCHANGED <<locations, routes, feedback, call, ncalls,
                 suggestions, bucket, mod, faults, sub, chk, invoked, ana>>

\* routes_table.delete(route_id): delete_item; "Route deleted successfully"
delete_route_delete(p) ==
    /\ At(p, "delete_route", "delete")
    /\ routes' = delete_item(routes, req[p].target)
    /\ req' = [req EXCEPT ![p] = Respond(@, 200, "deleted")]
    /\ UNCHANGED <<locations, feedback, routeFeedback, call, ncalls,
                 suggestions, bucket, mod, faults, sub, chk, invoked, ana>>

\* Reacts, views and reports of Location L1 and Route R1 by user u1, and
\* deletes of them, in any interleaving.
NextDelete ==
    \/ \E p \in Slots : submit_feedback_get(p, "u1", "L1")
    \/ \E p \in Slots : submit_feedback_query(p)
    \/ \E p \in Slots : submit_feedback_delete(p)
    \/ \E p \in Slots : submit_feedback_decrement(p)
    \/ \E p \in Slots : submit_feedback_create(p)
    \/ \E p \in Slots : submit_feedback_increment(p)
    \/ \E p \in Slots : submit_feedback_reread(p)
    \/ \E p \in Slots : get_location_by_id_get(p, "L1")
    \/ \E p \in Slots : get_location_by_id_increment(p)
    \/ \E p \in Slots : report_inactive_get(p, "u1", "L1")
    \/ \E p \in Slots : report_inactive_query(p)
    \/ \E p \in Slots : report_inactive_create(p)
    \/ \E p \in Slots : report_inactive_increment(p)
    \/ \E p \in Slots : report_inactive_flag(p)
    \/ \E p \in Slots : delete_location_get(p, "L1")
    \/ \E p \in Slots : delete_location_feedback(p)
    \/ \E p \in Slots : delete_location_delete(p)
    \/ \E p \in Slots : route_feedback_get(p, "u1", "R1", "like")
    \/ \E p \in Slots : route_feedback_query(p)
    \/ \E p \in Slots : route_feedback_delete(p)
    \/ \E p \in Slots : route_feedback_decrement(p)
    \/ \E p \in Slots : route_feedback_create(p)
    \/ \E p \in Slots : route_feedback_increment(p)
    \/ \E p \in Slots : route_feedback_reread(p)
    \/ \E p \in Slots : get_route_by_id_get(p, "R1")
    \/ \E p \in Slots : get_route_by_id_increment(p)
    \/ \E p \in Slots, user \in Users : delete_route_get(p, user, "R1")
    \/ \E p \in Slots : delete_route_feedback(p)
    \/ \E p \in Slots : delete_route_delete(p)

SpecDelete == Init /\ [][NextDelete]_vars

----------------------------------------------------------------------------
(* Submissions of either type that name one photo or four *)

FourPhotoIds == <<"a.jpg", "b.jpg", "c.jpg", "d.jpg">>

OnePhoto == <<PhotoKey("u1", FourPhotoIds[1])>>

FourPhotos == [i \in DOMAIN FourPhotoIds |-> PhotoKey("u1", FourPhotoIds[i])]

NextPhotoLimit ==
    \/ \E i \in DOMAIN FourPhotoIds : upload_photo("u1", FourPhotoIds[i])
    \/ \E s \in SubSlots, photos \in {OnePhoto, FourPhotos} :
          submit_suggestion_check_locations(s, "u1", NewLocationBody(photos))
    \/ \E s \in SubSlots : submit_suggestion_check_suggestions(s)
    \/ \E s \in SubSlots, fail \in BOOLEAN : submit_suggestion_put(s, fail)
    \/ \E s \in SubSlots, photos \in {OnePhoto, FourPhotos} :
          handle_photo_update_get(s, "u1", PhotoUpdateBody("L1", photos))
    \/ \E s \in SubSlots : handle_photo_update_scan(s)
    \/ \E s \in SubSlots, fail \in BOOLEAN : handle_photo_update_put(s, fail)

SpecPhotoLimit == Init /\ [][NextPhotoLimit]_vars

----------------------------------------------------------------------------
(* Engagement: what the claims speak of *)

Quiescent == \A p \in Slots : req[p].pc \in {"idle", "done"}

\* The EngagementRecords that exist for the triple of request r.
RecordsFor(r) ==
    IF r.handler = "route_feedback"
    THEN {k \in DOMAIN routeFeedback :
            /\ routeFeedback[k].userId = r.user
            /\ routeFeedback[k].routeId = r.target
            /\ routeFeedback[k].type = r.type}
    ELSE {k \in DOMAIN feedback :
            /\ feedback[k].userId = r.user
            /\ feedback[k].locationId = r.target
            /\ feedback[k].type = r.type}

\* The EngagementRecords of r's type that exist for r's target, of any user.
RecordsOnTarget(r) ==
    IF r.handler = "route_feedback"
    THEN {k \in DOMAIN routeFeedback :
            routeFeedback[k].routeId = r.target /\ routeFeedback[k].type = r.type}
    ELSE {k \in DOMAIN feedback :
            feedback[k].locationId = r.target /\ feedback[k].type = r.type}

\* toggle_favorite.py keeps no counter
HasCounter(r) == r.handler \in {"submit_feedback", "route_feedback"}

CounterAttr(r) == IF r.type = "save" THEN "saveCount" ELSE "likeCount"

CounterValue(r) ==
    IF r.handler = "route_feedback"
    THEN GetAttr(routes[r.target], CounterAttr(r), 0)
    ELSE GetAttr(locations[r.target], CounterAttr(r), 0)

\* Request q does not touch the target of request r.
NoActivityOn(q, r) ==
    \/ req[q].pc = "idle"
    \/ req[q].target # r.target
    \/ req[q].statusCode = 404

ToggleTypes == {"like", "favorite", "save"}

CounterAttrs == {"likeCount", "saveCount", "reportCount", "viewCount", "startCount"}

\* C1 (as claimed): two concurrent react requests for one triple, starting
\* from the absent state and with no other request on the target, leave
\* exactly one EngagementRecord and a counter incremented exactly once.
C1_ConcurrentReactExactlyOnce ==
    \A p \in Slots, q \in Slots :
        ( /\ p # q
          /\ req[p].pc = "done" /\ req[q].pc = "done"
          /\ SameTriple(req[p], req[q])
          /\ req[p].raced /\ req[q].raced
          /\ req[p].statusCode # 404
          /\ req[p].user \notin PriorUsers
          /\ \A o \in Slots \ {p, q} : NoActivityOn(o, req[p]) )
        => /\ Cardinality(RecordsFor(req[p])) = 1
           /\ HasCounter(req[p]) =>
                CounterValue(req[p]) = Cardinality(RecordsOnTarget(req[p]))

\* C2: at most one EngagementRecord exists per (type, userId, targetId),
\* in every reachable state.
C2_OneRecordPerTriple ==
    /\ \A j \in DOMAIN feedback, k \in DOMAIN feedback :
          ( /\ feedback[j].type \in ToggleTypes
            /\ feedback[j].type = feedback[k].type
            /\ feedback[j].userId = feedback[k].userId
            /\ feedback[j].locationId = feedback[k].locationId ) => j = k
    /\ \A j \in DOMAIN routeFeedback, k \in DOMAIN routeFeedback :
          ( /\ routeFeedback[j].type \in ToggleTypes
            /\ routeFeedback[j].type = routeFeedback[k].type
            /\ routeFeedback[j].userId = routeFeedback[k].userId
            /\ routeFeedback[j].routeId = routeFeedback[k].routeId ) => j = k

\* Two requests raced on one triple: one created the record, the other lost
\* the conditional create and is about to re-read.
C2_Witness ==
    \E p \in Slots, q \in Slots :
        /\ p # q
        /\ SameTriple(req[p], req[q])
        /\ req[p].pc = "increment"
        /\ req[q].pc = "reread"
        /\ Cardinality(RecordsFor(req[p])) = 1

\* C3: every counter of every Location and Route is >= 0 in every
\* reachable state, whatever the order and number of increments and
\* decrements.
C3_CountersNonNegative ==
    /\ \A id \in DOMAIN locations : \A a \in CounterAttrs \cap DOMAIN locations[id] :
            locations[id][a] >= 0
    /\ \A id \in DOMAIN routes : \A a \in CounterAttrs \cap DOMAIN routes[id] :
            routes[id][a] >= 0

\* Three calls were made on the Location's likeCount, the last a decrement,
\* and it stands at 0: at least as many decrements as increments.
C3_Witness ==
    /\ ncalls = 3
    /\ call.table = "locations" /\ call.op = "decrement_like_count" /\ call.id = "L1"
    /\ locations["L1"].likeCount = 0
    /\ \A a \in {"saveCount", "reportCount", "viewCount"} :
            GetAttr(locations["L1"], a, 0) = 0
    /\ routes = ("R1" :> ExistingRoute("R1"))
    /\ ~HasItem(locations, "L2")

\* Every record user r.user holds on r.target, of any type.
UserRecordsOnTarget(r) ==
    IF r.handler = "route_feedback"
    THEN {k \in DOMAIN routeFeedback :
            routeFeedback[k].userId = r.user /\ routeFeedback[k].routeId = r.target}
    ELSE {k \in DOMAIN feedback :
            feedback[k].userId = r.user /\ feedback[k].locationId = r.target}

\* Requests p1, p2, p3, in this order and one after the other, are the only
\* activity on their target, all three for one triple, and the first was a
\* react.
ReactUnreactReact(p1, p2, p3) ==
    /\ p1 < p2 /\ p2 < p3
    /\ \A p \in {p1, p2, p3} : req[p].pc = "done" /\ ~req[p].raced
    /\ SameTriple(req[p1], req[p2]) /\ SameTriple(req[p2], req[p3])
    /\ req[p1].state = "present"
    /\ \A o \in Slots \ {p1, p2, p3} : NoActivityOn(o, req[p1])

\* The records of r's type on r's target that belong to other users.
OthersRecords(r) == RecordsOnTarget(r) \ RecordsFor(r)

\* After react, un-react, react: the second request removed the reaction, the
\* third restored it, one record exists, and the counter is one more than the
\* other users' reactions, which nothing touched.
RoundTripRestored(p1, p2, p3) ==
    /\ req[p2].state = "absent"
    /\ req[p3].state = "present"
    /\ Cardinality(RecordsFor(req[p1])) = 1
    /\ HasCounter(req[p1]) =>
          CounterValue(req[p1]) = 1 + Cardinality(OthersRecords(req[p1]))

\* C8 (as claimed): react, un-react, react by one user on one target with no
\* other activity on it leaves exactly one EngagementRecord for the triple
\* and the counter at the value it had after the first react.
C8_ReactUnreactReactRoundTrip ==
    \A p1 \in Slots, p2 \in Slots, p3 \in Slots :
        ReactUnreactReact(p1, p2, p3) => RoundTripRestored(p1, p2, p3)

\* C8, restricted to a user who holds no reaction of another type on the
\* target: the round trip restores the record and the counter.
C8_RoundTripOfOnlyReaction ==
    \A p1 \in Slots, p2 \in Slots, p3 \in Slots :
        ( /\ ReactUnreactReact(p1, p2, p3)
          /\ UserRecordsOnTarget(req[p1]) \subseteq RecordsFor(req[p1]) )
        => RoundTripRestored(p1, p2, p3)

\* A like of Location L1 was given, removed and given again while another
\* user's like stood: the counter is 2 again.
C8_RoundTripReached ==
    /\ ReactUnreactReact(1, 2, 3)
    /\ req[1].handler = "submit_feedback"
    /\ req[3].statusCode = 201
    /\ locations["L1"].likeCount = 2

\* Route R1 carries u2's like; u2 then sends three save requests one after
\* the other.  The second one's query evaluated the like record, so it
\* answered "already saved"; the third removed the save.
C8_SaveLostBehindLike ==
    /\ ReactUnreactReact(1, 2, 3)
    /\ req[1].handler = "route_feedback" /\ req[1].type = "save" /\ req[1].user = "u2"
    /\ req[2].state = "present" /\ req[2].statusCode = 200
    /\ req[3].state = "absent"
    /\ RecordsFor(req[1]) = {}
    /\ routes["R1"].saveCount = 0

\* C10 (as claimed): two racing un-reacts of one reaction lower the counter
\* by exactly one in total, so once every request has finished the counter
\* again equals the number of reactions that exist.
C10_RacingUnreactsLowerByOne ==
    \A p \in Slots, q \in Slots :
        ( /\ p # q
          /\ Quiescent
          /\ SameTriple(req[p], req[q])
          /\ req[p].raced /\ req[q].raced
          /\ req[p].pc = "done" /\ req[q].pc = "done"
          /\ req[p].state = "absent" /\ req[q].state = "absent"
          /\ HasCounter(req[p])
          /\ \A o \in Slots \ {p, q} : ~req[o].raced )
        => CounterValue(req[p]) = Cardinality(RecordsOnTarget(req[p]))

DecrementedAttr(op) == IF op = "decrement_save_count" THEN "saveCount" ELSE "likeCount"

\* C9: a decrement of a counter that is 0, or absent, changes nothing and
\* raises nothing to the caller.
C9_DecrementAtZeroIsNoOp ==
    [][ ( /\ ncalls' = ncalls + 1
          /\ call'.op \in {"decrement_like_count", "decrement_save_count"}
          /\ ~CounterIsPositive(IF call'.table = "locations" THEN locations ELSE routes,
                                call'.id, DecrementedAttr(call'.op)) )
        => ( /\ call'.raised = "None"
             /\ locations' = locations
             /\ routes' = routes ) ]_vars

\* decrement_save_count was just called on a Location that has no saveCount
\* attribute, and on a Location that does not exist.
C9_Witness ==
    /\ call.table = "locations"
    /\ call.op = "decrement_save_count"
    /\ call.id = "L1"
    /\ ~HasAttr(locations["L1"], "saveCount")
    /\ locations["L1"].likeCount = 0

----------------------------------------------------------------------------
(* The Submission lifecycle, under SpecLifecycle *)

\* The published copies of a staged photo, under any Location id.
ApprovedCopies(photo_key) ==
    {k \in bucket : k[1] = "approved" /\ Filename(k) = Filename(photo_key)}

\* The Locations that approve invocations have created for Submission sid.
LocationsCreatedFor(sid) ==
    {mod[m].location_id :
        m \in {n \in Mods : /\ mod[n].kind = "approve"
                             /\ mod[n].sid = sid
                             /\ HasItem(locations, mod[n].location_id)}}

\* C4: an approve that finds the Submission no longer pending ends at once
\* with the error "Suggestion already processed" and writes nothing: no
\* Location is created, no object is copied or deleted, the Submission
\* record is unchanged; and a finished invocation takes no further step.
C4_ApproveNonPendingChangesNothing ==
    [][ \A m \in Mods :
          /\ ( /\ mod[m].pc = "idle"
               /\ mod'[m].kind = "approve"
               /\ HasItem(suggestions, mod'[m].sid)
               /\ suggestions[mod'[m].sid].status # "pending" )
             => ( /\ mod'[m].pc = "done"
                  /\ mod'[m].statusCode = 400
                  /\ mod'[m].message = "Suggestion already processed"
                  /\ suggestions' = suggestions
                  /\ bucket' = bucket
                  /\ locations' = locations )
          /\ mod[m].pc = "done" => mod'[m] = mod[m] ]_vars

\* The first approve of S1 completed and created its Location; the second
\* approve was then refused.
C4_Witness ==
    /\ mod[1].kind = "approve" /\ mod[1].statusCode = 200
    /\ mod[2].kind = "approve" /\ mod[2].pc = "done"
    /\ mod[2].statusCode = 400 /\ mod[2].message = "Suggestion already processed"
    /\ suggestions["S1"].status = "approved"
    /\ suggestions["S1"].locationId = NewLocationId(1)
    /\ Len(suggestions["S1"].photos) = 2
    /\ LocationsCreatedFor("S1") = {NewLocationId(1)}
    /\ ~HasItem(locations, NewLocationId(2))

\* C5 (as claimed): whatever two approve invocations on one pending
\* Submission do, at most one Location is created for it and each staged
\* photo is copied to the published area at most once.
C5_TwoApprovesOneLocation ==
    \A sid \in DOMAIN suggestions :
        /\ Cardinality(LocationsCreatedFor(sid)) <= 1
        /\ \A i \in 1 .. Len(suggestions[sid].photos) :
               Cardinality(ApprovedCopies(suggestions[sid].photos[i])) <= 1

\* Two moderators approved S1 at the same time: both were answered 200, two
\* Locations exist and the photo has two published copies.
C5_BothApprovesProcessed ==
    /\ \A m \in {1, 2} : mod[m].kind = "approve" /\ mod[m].statusCode = 200
    /\ Cardinality(LocationsCreatedFor("S1")) = 2
    /\ Cardinality(ApprovedCopies(PhotoKey("u1", "a.jpg"))) = 2
    /\ faults = 0

\* C6 (as claimed): once a Submission's status is approved or rejected, no
\* step changes it.
C6_StatusFinal ==
    [][ \A sid \in DOMAIN suggestions :
          suggestions[sid].status # "pending"
            => suggestions'[sid].status = suggestions[sid].status ]_vars

\* An approve and a reject of S1 ran at the same time: the Location exists
\* and the Submission is rejected.
C6_ApprovedThenRejected ==
    /\ mod[1].kind = "approve" /\ mod[1].statusCode = 200
    /\ mod[2].kind = "reject" /\ mod[2].statusCode = 200
    /\ suggestions["S1"].status = "rejected"
    /\ HasItem(locations, NewLocationId(1))
    /\ faults = 0

\* C7 (as claimed): every photo of a pending Submission exists under
\* pending/ and has no copy under approved/.
C7_PendingPhotosOnlyStaged ==
    \A sid \in DOMAIN suggestions :
        suggestions[sid].status = "pending" =>
            \A i \in 1 .. Len(suggestions[sid].photos) :
                LET photo_key == suggestions[sid].photos[i] IN
                    /\ startswith_pending(photo_key)
                    /\ photo_key \in bucket
                    /\ ApprovedCopies(photo_key) = {}

\* The only approve of S1 moved the photo, then put_item raised: the
\* request ended with 500, S1 is still pending, its photo is gone from
\* pending/ and lies under approved/, and no Location exists for it.
C7_FailedApproveLeavesPending ==
    /\ mod[1].kind = "approve" /\ mod[1].statusCode = 500
    /\ mod[2].pc = "idle"
    /\ suggestions["S1"].status = "pending"
    /\ suggestions["S1"].photos = <<PhotoKey("u1", "a.jpg")>>
    /\ PhotoKey("u1", "a.jpg") \notin bucket
    /\ ApprovedKey(NewLocationId(1), "a.jpg") \in bucket
    /\ LocationsCreatedFor("S1") = {}

\* Reject m ended with success and no approve has worked on its Submission.
RejectedAlone(m) ==
    /\ mod[m].kind = "reject" /\ mod[m].pc = "done" /\ mod[m].statusCode = 200
    /\ \A n \in Mods \ {m} :
          mod[n].kind = "approve" =>
              mod[n].sid # mod[m].sid \/ mod[n].statusCode \in {400, 404}

PublishedKeys == {k \in bucket : k[1] = "approved"}

\* What a reject leaves outside the staging area: nothing published, no
\* Location created or modified, the Submission stamped as rejected.
RejectStamped(m) ==
    /\ PublishedKeys = {}
    /\ locations = ("L1" :> ExistingLocation("L1"))
    /\ suggestions[mod[m].sid].status = "rejected"
    /\ suggestions[mod[m].sid].reviewedBy \in Admins
    /\ {"reviewedAt", "rejectionReason"} \subseteq DOMAIN suggestions[mod[m].sid]

EveryPhotoAttempted(m) ==
    /\ LoopOver(mod[m])
    /\ \A i \in 1 .. Len(mod[m].photos) :
          LET photo_key == mod[m].photos[i] IN
            \/ ~startswith_pending(photo_key)
            \/ photo_key \in mod[m].failed
            \/ \E j \in 1 .. Len(mod[m].approved_photo_urls) :
                  mod[m].approved_photo_urls[j] =
                      CdnUrl(mod[m].location_id, Filename(photo_key))

\* Invocation m writes status approved in this step.
WritesApproved(m) ==
    /\ mod[m].kind = "approve"
    /\ mod[m].pc = "update"
    /\ suggestions'[mod[m].sid].status = "approved"
    /\ mod'[m].statusCode = 200

\* C12: in every approve, of a new_location and of a photo_update
\* Submission, the write of status approved happens after the copy/delete
\* attempt for every photo has finished, and the invocation performs no
\* photo operation after that write.
C12_StatusWrittenAfterPhotoLoop ==
    [][\A m \in Mods :
          /\ WritesApproved(m) => EveryPhotoAttempted(m) /\ bucket' = bucket
          /\ (mod[m].kind = "approve" /\ mod[m].pc = "done") => mod'[m] = mod[m]]_vars

\* Both kinds of approve have written status approved for a Submission
\* with a photo.
C12_Witness ==
    \E m \in Mods, n \in Mods :
        /\ mod[m].pc = "done" /\ mod[m].statusCode = 200
        /\ mod[m].type = "new_location" /\ mod[m].photos # <<>>
        /\ mod[n].pc = "done" /\ mod[n].statusCode = 200
        /\ mod[n].type = "photo_update" /\ mod[n].photos # <<>>

\* Approve invocation m of a new_location Submission is at a photo step.
InPhotoLoop(m) ==
    /\ mod[m].kind = "approve"
    /\ mod[m].type = "new_location"
    /\ \/ mod[m].pc = "delete"
       \/ mod[m].pc = "photos" /\ ~LoopOver(mod[m])

C14_ListedIffPublished ==
    \A m \in Mods :
        ( /\ mod[m].kind = "approve" /\ mod[m].type = "new_location"
          /\ HasItem(locations, mod[m].location_id) ) =>
        \A i \in 1 .. Len(mod[m].photos) :
            LET filename == Filename(mod[m].photos[i])
                listed == \E j \in 1 .. Len(locations[mod[m].location_id].photos) :
                             locations[mod[m].location_id].photos[j] =
                                 CdnUrl(mod[m].location_id, filename)
            IN  listed <=> ApprovedKey(mod[m].location_id, filename) \in bucket

\* The photo is in the staging area or has a copy in the published area.
PhotoKept(bkt, photo_key) ==
    \/ photo_key \in bkt
    \/ \E k \in bkt : k[1] = "approved" /\ Filename(k) = Filename(photo_key)

\* C15: in every execution of approve, of either kind of Submission, the
\* staged copy of a photo is deleted only after the copy of that photo
\* into the published area has succeeded; a copy that fails leaves the
\* bucket as it was; so after every step each photo of every Submission
\* is in the staging area or in the published area.
C15_StagedDeletedOnlyAfterCopy ==
    [][/\ \A m \in Mods :
            (mod[m].kind = "approve" /\ mod'[m] # mod[m]) =>
              /\ \A k \in bucket \ bucket' :
                    /\ mod[m].pc = "delete"
                    /\ k = mod[m].photos[mod[m].i]
                    /\ ApprovedKey(mod[m].location_id, Filename(k)) \in bucket
              /\ (mod[m].pc = "photos" /\ mod'[m].failed # mod[m].failed) =>
                    bucket' = bucket
       /\ \A sid \in DOMAIN suggestions' :
            \A i \in 1 .. Len(suggestions'[sid].photos) :
                PhotoKept(bucket', suggestions'[sid].photos[i])]_vars

\* One approve has moved its photo, another has had its copy fail and
\* left the staged object in place.
C15_Witness ==
    \E m \in Mods, n \in Mods :
        /\ mod[m].kind = "approve" /\ mod[m].photos # <<>>
        /\ mod[m].failed = {mod[m].photos[1]}
        /\ mod[m].photos[1] \in bucket
        /\ ApprovedKey(mod[m].location_id, Filename(mod[m].photos[1])) \notin bucket
        /\ mod[n].kind = "approve" /\ mod[n].type # mod[m].type
        /\ mod[n].photos # <<>>
        /\ mod[n].photos[1] \notin bucket
        /\ ApprovedKey(mod[n].location_id, Filename(mod[n].photos[1])) \in bucket

\* C16 (as claimed): approving a photo_update never replaces or removes
\* photos that a Location already has: a photo listed on a Location
\* stays listed on it.
C16_ApproveKeepsExistingPhotos ==
    [][\A l \in DOMAIN locations :
          \A j \in 1 .. Len(locations[l].photos) :
              /\ HasItem(locations', l)
              /\ \E k \in 1 .. Len(locations'[l].photos) :
                    locations'[l].photos[k] = locations[l].photos[j]]_vars

\* Two photo_update Submissions of different users for Location L1 were
\* approved one after the other, and L1 lists only the second one's photo.
C16_SecondApprovalReplacedPhotos ==
    /\ mod[1].pc = "done" /\ mod[1].statusCode = 200 /\ mod[1].type = "photo_update"
    /\ mod[2].pc = "done" /\ mod[2].statusCode = 200 /\ mod[2].type = "photo_update"
    /\ mod[1].sid # mod[2].sid
    /\ mod[1].submittedBy # mod[2].submittedBy
    /\ faults = 0
    /\ mod[1].approved_photo_urls # <<>>
    /\ locations["L1"].photos = mod[2].approved_photo_urls
    /\ locations["L1"].photos # mod[1].approved_photo_urls
    /\ {ApprovedKey("L1", "a.jpg"), ApprovedKey("L1", "b.jpg")} \subseteq bucket

\* Two records are at one place for the Duplicate Detector.
SamePlace(a, b) ==
    \/ /\ round_coordinate(a.lat) = round_coordinate(b.lat)
       /\ round_coordinate(a.lng) = round_coordinate(b.lng)
    \/ normalize_address(a.address) = normalize_address(b.address)

PendingNewLocations == ScanPendingNewLocations(suggestions)

\* C17 (as claimed): whatever the interleaving of two submitEntry requests
\* whose coordinates round to the same pair or whose normalized addresses
\* are equal, at most one pending new_location Submission is created.
C17_OnePendingSubmissionPerPlace ==
    \A j \in PendingNewLocations, k \in PendingNewLocations :
        SamePlace(suggestions[j], suggestions[k]) => j = k

\* Both of two racing requests for one address at places 0.001 degree
\* apart were answered 201.
C17_BothRacingSubmitsCreated ==
    /\ sub[1].statusCode = 201 /\ sub[2].statusCode = 201
    /\ sub[1].body.lat # sub[2].body.lat
    /\ sub[1].body.address # sub[2].body.address
    /\ Cardinality(PendingNewLocations) = 2
    /\ SamePlace(suggestions["S1"], suggestions["S2"])

\* The rounded coordinate pairs of a record and of a request body are equal.
SameRoundedPair(item, body) ==
    /\ round_coordinate(item.lat) = round_coordinate(body.lat)
    /\ round_coordinate(item.lng) = round_coordinate(body.lng)

SameNormalizedAddress(item, body) ==
    normalize_address(item.address) = normalize_address(body.address)

\* A match as the claim words it, and as amended.
MatchAsClaimed(item, body) ==
    SameRoundedPair(item, body) \/ SameNormalizedAddress(item, body)

MatchNonEmpty(item, body) ==
    \/ SameRoundedPair(item, body)
    \/ SameNormalizedAddress(item, body) /\ normalize_address(body.address) # <<>>

\* The check-duplicate request reads the Locations in this step.
ChkScansLocations == chk.pc = "idle" /\ chk'.pc # "idle" /\ chk'.statusCode # 400

ChkScansSuggestions == chk.pc = "check_suggestions" /\ chk'.pc = "done"

SubScansLocations(s) ==
    sub[s].pc = "idle" /\ sub'[s].pc # "idle" /\ sub'[s].statusCode # 400

SubScansSuggestions(s) == sub[s].pc = "check_suggestions" /\ sub'[s].pc # sub[s].pc

PublishedOutcome(r) == r.isDuplicate /\ r.location # "None" /\ ~r.hasPendingSuggestion

PendingOutcome(r) == r.isDuplicate /\ r.location = "None" /\ r.hasPendingSuggestion

NoDuplicateOutcome(r) == ~r.isDuplicate /\ r.location = "None" /\ ~r.hasPendingSuggestion

MatchingLocations(body) ==
    {l \in ScanActiveLocations(locations) : MatchNonEmpty(locations[l], body)}

MatchingSubmissions(body) ==
    {j \in PendingNewLocations : MatchNonEmpty(suggestions[j], body)}

Distance(x, y) == IF x >= y THEN x - y ELSE y - x

\* m is a multiple of 0.0001 degree nearest to coord.
NearestMultiple(coord, m) == m % 10 = 0 /\ Distance(coord, m) <= 5

\* The records the check-duplicate request compares its point with.
ComparedPoints ==
    {locations[l] : l \in ScanActiveLocations(locations)}
    \cup {suggestions[j] : j \in PendingNewLocations}

\* The request was answered as a duplicate of Location l.
AnsweredWith(l) == chk'.pc = "done" /\ chk'.isDuplicate /\ chk'.location = l

\* C20: with coordinates as integers in units of 0.00001 degree, rounding
\* takes a coordinate to a nearest multiple of 0.0001, and two points
\* match by coordinates exactly when latitude and longitude round to the
\* same multiples: (32.77670, -96.79700) matches (32.77669, -96.79701),
\* and a point 0.001 degree away in a coordinate never matches by
\* coordinates.
C20_CoordinatesMatchOnRoundedPair ==
    [][ChkScansLocations =>
         /\ NearestMultiple(chk'.body.lat, round_coordinate(chk'.body.lat))
         /\ NearestMultiple(chk'.body.lng, round_coordinate(chk'.body.lng))
         /\ \A item \in ComparedPoints :
               /\ NearestMultiple(item.lat, round_coordinate(item.lat))
               /\ NearestMultiple(item.lng, round_coordinate(item.lng))
               /\ (Distance(item.lat, chk'.body.lat) = 100
                     \/ Distance(item.lng, chk'.body.lng) = 100) =>
                     ~SameRoundedPair(item, chk'.body)
         /\ \A l \in ScanActiveLocations(locations) :
               /\ (SameRoundedPair(locations[l], chk'.body)) =>
                     chk'.pc = "done" /\ chk'.isDuplicate /\ chk'.location # "None"
               /\ (AnsweredWith(l) /\ ~SameNormalizedAddress(locations[l], chk'.body)) =>
                     SameRoundedPair(locations[l], chk'.body)
               /\ ( /\ chk'.body.lat = 3277670 /\ chk'.body.lng = -9679700
                    /\ locations[l].lat = 3277669 /\ locations[l].lng = -9679701
                    /\ Cardinality(MatchingLocations(chk'.body)) = 1 ) =>
                     AnsweredWith(l)]_vars

\* The point (32.77670, -96.79700) was reported a duplicate of the
\* Location at (32.77669, -96.79701), whose address differs.
C20_Witness ==
    /\ chk.pc = "done" /\ chk.isDuplicate /\ chk.location = "L3"
    /\ chk.body.lat = 3277670 /\ chk.body.lng = -9679700
    /\ locations["L3"].lat = 3277669 /\ locations["L3"].lng = -9679701
    /\ ~SameNormalizedAddress(locations["L3"], chk.body)

----------------------------------------------------------------------------
(* The Tag Merge & Deduplicator, under SpecTags *)

\* An analysis has merged and deduplicated the tags and is about to write them.
Merging(a) == ana[a].pc = "update"

\* C21: merging the tag sets whose union is {"snowman figures", "inflatable
\* snowmen"} yields exactly {"inflatable snowmen"}, in whichever order the
\* two tags are enumerated.
C21_SnowmanPairMergedIntoOne ==
    \A a \in AnaSlots :
        (Merging(a) /\ set(ana[a].merged_items) = {SnowmanFigures, InflatableSnowmen})
            => set(ana[a].update.detectedTags) = {InflatableSnowmen}

\* Both tags come out of the merge, and are written to the Submission.
C21_BothSnowmanTagsKept ==
    \E sid \in DOMAIN suggestions :
        GetAttr(suggestions[sid], "detectedTags", <<>>) = <<InflatableSnowmen, SnowmanFigures>>

\* The removals the two loops make on tags from the pair (i, j) on, each as
\* <<tag removed, tag it was compared with>>.
RECURSIVE Removals(_, _, _, _)
Removals(tags, i, j, removed) ==
    IF i > Len(tags) THEN {}
    ELSE IF j = 1 /\ tags[i] \in removed THEN Removals(tags, i + 1, 1, removed)
    ELSE IF j > Len(tags) THEN Removals(tags, i + 1, 1, removed)
    ELSE IF i >= j \/ tags[j] \in removed THEN Removals(tags, i, j + 1, removed)
    ELSE LET outcome == compare_tags(tags[i], tags[j]) IN
         IF outcome = "remove_i"
         THEN {<<tags[i], tags[j]>>} \cup Removals(tags, i + 1, 1, removed \cup {tags[i]})
         ELSE IF outcome = "remove_j"
         THEN {<<tags[j], tags[i]>>} \cup Removals(tags, i, j + 1, removed \cup {tags[j]})
         ELSE Removals(tags, i, j + 1, removed)

\* The removals made by the near-duplicate rule, not by the subset rule.
NearDuplicateRemovals(tags) ==
    {pair \in Removals(tags, 1, 1, {}) :
        ~proper_subset(words(pair[1]), words(pair[2]))}

\* The word has an equal word, or a stem match, in the other tag.
WordMatched(word, other) ==
    word \in words(other) \/ \E w \in words(other) : stem_match(word, w)

\* Every word of the tag is matched in the other, and there are two or more.
AllWordsMatched(tag, other) ==
    /\ \A word \in words(tag) : WordMatched(word, other)
    /\ Cardinality(words(tag)) >= 2

\* Of two tags, one with the fewest words is matched word for word.
ShorterTagMatched(pair) ==
    \E k \in {1, 2} :
        /\ Cardinality(words(pair[k])) <= Cardinality(words(pair[3 - k]))
        /\ AllWordsMatched(pair[k], pair[3 - k])

\* C22: the near-duplicate rule removes a tag only when every word of the
\* shorter of the two tags is matched, exactly or by stem prefix, in the other
\* and at least two words are matched; "inflatable snowmen" and "gingerbread
\* inflatables" are both kept.
C22_NeverOverMerges ==
    \A a \in AnaSlots :
        Merging(a) =>
            /\ \A pair \in NearDuplicateRemovals(ana[a].merged_items) :
                  ShorterTagMatched(pair)
            /\ set(ana[a].merged_items) = {InflatableSnowmen, GingerbreadInflatables}
                  => set(ana[a].update.detectedTags) = set(ana[a].merged_items)

\* "snowman and trees" was merged into "snowmen and snowflake lights".
C22_TreesMergedAway ==
    \E a \in AnaSlots :
        /\ Merging(a)
        /\ set(ana[a].merged_items) = {SnowmenAndSnowflakeLights, SnowmanAndTrees}
        /\ ana[a].update.detectedTags = <<SnowmenAndSnowflakeLights>>

\* The two gingerbread and snowmen inflatables were merged and both kept.
C22_InflatablesBothKept ==
    \E a \in AnaSlots :
        /\ Merging(a)
        /\ set(ana[a].merged_items) = {InflatableSnowmen, GingerbreadInflatables}
        /\ Len(ana[a].update.detectedTags) = 2

\* The words of the first tag are a strict subset of those of the second.
LessSpecific(tag, other) == proper_subset(words(tag), words(other))

\* No tag of the list has a strict subset of the words of another.
NoSubsetPair(tags) ==
    \A tag \in set(tags), other \in set(tags) : ~LessSpecific(tag, other)

\* The near-duplicate rule takes the two tags for one item and prefers other.
PreferredNearDuplicate(tag, other) ==
    /\ near_duplicate(tag, other) \/ near_duplicate(other, tag)
    /\ Len(other) >= Len(tag)

\* C30 as worded: the output holds no two tags of which one has a strict
\* subset of the other's lowercase words, and of such a pair in the input the
\* tag with more words survives unless the input holds a tag more specific
\* still, one whose words strictly contain its own.
C30_MoreSpecificSurvives ==
    \A a \in AnaSlots :
        Merging(a) =>
            LET input == set(ana[a].merged_items)
                output == set(ana[a].update.detectedTags)
            IN  /\ NoSubsetPair(ana[a].update.detectedTags)
                /\ \A tag \in input, larger \in input :
                      LessSpecific(tag, larger) =>
                          \/ larger \in output
                          \/ \E other \in input : LessSpecific(larger, other)

\* C30, amended: the output holds no two tags of which one has a strict subset
\* of the other's lowercase words, and of such a pair in the input the tag
\* with more words survives unless the input holds a tag it is removed in
\* favour of: one whose words strictly contain its own, or a near-duplicate
\* at least as long.
C30_MoreSpecificSurvivesOrNearDuplicate ==
    \A a \in AnaSlots :
        Merging(a) =>
            LET input == set(ana[a].merged_items)
                output == set(ana[a].update.detectedTags)
            IN  /\ NoSubsetPair(ana[a].update.detectedTags)
                /\ \A tag \in input, larger \in input :
                      LessSpecific(tag, larger) =>
                          \/ larger \in output
                          \/ \E other \in input \ {larger} :
                                \/ LessSpecific(larger, other)
                                \/ PreferredNearDuplicate(larger, other)

\* Three or more tags were merged: "reindeer figures" went and the more
\* specific "white reindeer figures" survived.
C30_Witness ==
    \E a \in AnaSlots :
        /\ Merging(a)
        /\ {ReindeerFigures, WhiteReindeerFigures} \subseteq set(ana[a].merged_items)
        /\ WhiteReindeerFigures \in set(ana[a].update.detectedTags)
        /\ ReindeerFigures \notin set(ana[a].update.detectedTags)
        /\ Len(ana[a].merged_items) >= 3

----------------------------------------------------------------------------
(* Toggle responses and counters, under SpecToggle *)

\* The table that holds the EngagementRecords of request r's handler.
RecordTable(r) == IF r.handler = "route_feedback" THEN routeFeedback ELSE feedback

\* Request p is at its conditional create and the record of its triple is
\* there already: another request created it first.
LosesCreateRace(p) ==
    /\ req[p].pc = "create"
    /\ HasItem(RecordTable(req[p]),
               FeedbackKey(FeedbackId(req[p].type, req[p].user, req[p].target),
                           req[p].target))

AnsweredPresent(r) == r.pc = "done" /\ r.statusCode = 200 /\ r.state = "present"

\* C23: a toggle request that loses the conditional-create race is answered
\* with success and the state present, never with an error, and every response
\* of a toggle on an existing target reports exactly one of present and absent.
C23_RaceLoserAnsweredPresent ==
    [][\A p \in Slots :
          /\ (LosesCreateRace(p) /\ req'[p].pc # "create")
                => (req'[p].pc = "reread" \/ AnsweredPresent(req'[p]))
          /\ (req[p].pc = "reread" /\ req'[p].pc # "reread") => AnsweredPresent(req'[p])
          /\ (req[p].pc \notin {"idle", "done"} /\ req'[p].pc = "done")
                => /\ req'[p].state \in {"present", "absent"}
                   /\ req'[p].statusCode \in {200, 201}]_vars

\* Two requests raced on one triple: one created the record, the other lost
\* the create and was answered 200, present.
C23_Witness ==
    \E p \in Slots, q \in Slots :
        /\ p # q
        /\ SameTriple(req[p], req[q])
        /\ req[p].raced /\ req[q].raced
        /\ req[q].pc = "done" /\ req[q].statusCode = 201
        /\ AnsweredPresent(req[p])

\* The key of the EngagementRecord of request r's triple.
RecordKey(r) == FeedbackKey(FeedbackId(r.type, r.user, r.target), r.target)

\* Request p's conditional create puts the record of its triple.
CreatesRecord(p) ==
    /\ req[p].pc = "create"
    /\ req'[p].pc # "create"
    /\ ~HasItem(RecordTable(req[p]), RecordKey(req[p]))

\* Request p's delete removes the record it read.
RemovesRecord(p) ==
    /\ req[p].pc = "delete"
    /\ req'[p].pc # "delete"
    /\ HasItem(RecordTable(req[p]), FeedbackKey(req[p].existing, req[p].target))

\* The counter of request r's target for r's type, after the step.
CounterValueAfter(r) ==
    IF r.handler = "route_feedback"
    THEN GetAttr(routes'[r.target], CounterAttr(r), 0)
    ELSE GetAttr(locations'[r.target], CounterAttr(r), 0)

\* C26: for each of like, favorite and save, on Locations and on Routes, a
\* react that creates the EngagementRecord goes on to raise the target's
\* counter by exactly one and an un-react that removes the record goes on to
\* lower it by exactly one (a counter that is already 0 stays 0).
C26_EveryToggleCounted ==
    [][\A p \in Slots :
          /\ CreatesRecord(p) => req'[p].pc = "increment"
          /\ (req[p].pc = "increment" /\ req'[p].pc # "increment")
                => CounterValueAfter(req[p]) = CounterValue(req[p]) + 1
          /\ RemovesRecord(p) => req'[p].pc = "decrement"
          /\ (req[p].pc = "decrement" /\ req'[p].pc # "decrement")
                => \/ CounterValueAfter(req[p]) = CounterValue(req[p]) - 1
                   \/ CounterValue(req[p]) = 0]_vars

\* A user has favorited Location L1: the record is there, the request was
\* answered 201, and the Location has no saveCount and its likeCount of before.
C26_FavoriteNotCounted ==
    \E p \in Slots :
        /\ Quiescent
        /\ req[p].handler = "toggle_favorite"
        /\ req[p].statusCode = 201
        /\ HasItem(feedback, RecordKey(req[p]))
        /\ \A q \in Slots \ {p} : req[q].pc = "idle"
        /\ ~HasAttr(locations[req[p].target], "saveCount")
        /\ locations[req[p].target].likeCount = Cardinality(RecordsOnTarget(
              [req[p] EXCEPT !.type = "like"]))

\* C26 for the handlers that keep a counter: likes of Locations, likes and
\* saves of Routes.
C26_LikesAndSavesCounted ==
    [][\A p \in Slots :
          HasCounter(req[p]) =>
              /\ CreatesRecord(p) => req'[p].pc = "increment"
              /\ (req[p].pc = "increment" /\ req'[p].pc # "increment")
                    => CounterValueAfter(req[p]) = CounterValue(req[p]) + 1
              /\ RemovesRecord(p) => req'[p].pc = "decrement"
              /\ (req[p].pc = "decrement" /\ req'[p].pc # "decrement")
                    => \/ CounterValueAfter(req[p]) = CounterValue(req[p]) - 1
                       \/ CounterValue(req[p]) = 0]_vars

\* The EngagementRecords of one type that exist for a Location, for a Route.
LocationRecords(location_id, type) ==
    {k \in DOMAIN feedback :
        feedback[k].locationId = location_id /\ feedback[k].type = type}

RouteRecords(route_id, type) ==
    {k \in DOMAIN routeFeedback :
        routeFeedback[k].routeId = route_id /\ routeFeedback[k].type = type}

\* C27: whenever no toggle request is in progress, each counter of each target
\* equals the number of EngagementRecords of its type that exist for the
\* target: likeCount of a Location, likeCount and saveCount of a Route.
C27_CountersEqualRecords ==
    Quiescent =>
        /\ \A id \in DOMAIN locations :
              GetAttr(locations[id], "likeCount", 0)
                  = Cardinality(LocationRecords(id, "like"))
        /\ \A id \in DOMAIN routes :
              /\ GetAttr(routes[id], "likeCount", 0)
                    = Cardinality(RouteRecords(id, "like"))
              /\ GetAttr(routes[id], "saveCount", 0)
                    = Cardinality(RouteRecords(id, "save"))

\* Two clients of user u2 have both un-liked Location L1, which u1 likes
\* too: u1's like record stands and likeCount is 0.
C27_LikeCountBelowRecords ==
    /\ Quiescent
    /\ Cardinality(LocationRecords("L1", "like")) = 1
    /\ locations["L1"].likeCount = 0
    /\ \E p \in Slots, q \in Slots :
          /\ p # q
          /\ SameTriple(req[p], req[q])
          /\ req[p].handler = "submit_feedback"
          /\ req[p].state = "absent" /\ req[q].state = "absent"

----------------------------------------------------------------------------
(* submitEntry, under SpecSubmit *)

\* The body fails the validation of submitEntry: no address, a description
\* of fewer than 20 characters, no coordinates, or a malformed address.
InvalidBody(body) ==
    \/ strip(GetAttr(body, "address", <<>>)) = <<>>
    \/ Len(strip(GetAttr(body, "description", <<>>))) < MIN_DESCRIPTION
    \/ ~HasAttr(body, "lat")
    \/ ~HasAttr(body, "lng")
    \/ validate_address_format(strip(GetAttr(body, "address", <<>>))) # "None"

\* The request was refused: by validation (400) or as a duplicate (409).
Refused(r) == r.pc = "done" /\ r.statusCode \in {400, 409}

\* C24: a submitEntry refused by validation or by the duplicate check writes
\* nothing: no step of it creates a Submission, changes a record or an object,
\* or triggers a photo analysis; and a body that fails validation is refused.
C24_RefusedSubmitWritesNothing ==
    [][\A s \in SubSlots :
          (sub'[s] # sub[s] /\ (InvalidBody(sub'[s].body) \/ Refused(sub'[s])))
              => /\ UNCHANGED <<suggestions, locations, routes, feedback,
                                routeFeedback, bucket, invoked>>
                 /\ NewSuggestionId(s) \notin DOMAIN suggestions'
                 /\ Refused(sub'[s])]_vars

\* The first request created a Submission with a photo; the second, for the
\* same place and photo, was refused as a duplicate: one Submission exists and
\* the photo's analysis was triggered by the upload and by the first request.
C24_Witness ==
    /\ sub[1].pc = "done" /\ sub[1].statusCode = 201
    /\ sub[2].pc = "done" /\ sub[2].statusCode = 409
    /\ sub[2].body.photos = <<PhotoKey("u1", "a.jpg")>>
    /\ DOMAIN suggestions = {NewSuggestionId(1)}
    /\ invoked = (PhotoKey("u1", "a.jpg") :> 2)

----------------------------------------------------------------------------
(* Approval and rejection, under SpecLifecycle and SpecModeration *)

ApproveInProgress == \E m \in Mods : mod[m].kind = "approve" /\ mod[m].pc \notin {"idle", "done"}

\* C25: whenever no approve is in progress, a Location created from a
\* Submission exists only if the Submission is approved and its locationId
\* names that Location; an approve that ended in an error leaves no Location
\* for a Submission that is still pending.
C25_ApprovalNeverHalfApplied ==
    ~ApproveInProgress =>
        \A sid \in DOMAIN suggestions :
            \A location_id \in LocationsCreatedFor(sid) :
                /\ suggestions[sid].status = "approved"
                /\ GetAttr(suggestions[sid], "locationId", "None") = location_id

\* The only approve of S1 created the Location, then the update of the
\* Submission raised: the request ended with 500, the Location exists and S1
\* is still pending, without locationId.
C25_LocationOfPendingSubmission ==
    /\ mod[1].kind = "approve" /\ mod[1].statusCode = 500
    /\ mod[2].pc = "idle"
    /\ HasItem(locations, NewLocationId(1))
    /\ suggestions["S1"].status = "pending"
    /\ ~HasAttr(suggestions["S1"], "locationId")
    /\ faults = 1

ModerationInProgress == \E m \in Mods : mod[m].pc \notin {"idle", "done"}

\* C28: once an approve and a reject of one pending Submission have both
\* ended, exactly one has taken effect: the Submission is not rejected while
\* a Location created from it exists or while it carries a locationId, and it
\* is not approved with a staged photo deleted instead of moved.
C28_ApproveOrRejectNotBoth ==
    ~ModerationInProgress =>
        \A sid \in DOMAIN suggestions :
            /\ suggestions[sid].status = "rejected" =>
                  /\ LocationsCreatedFor(sid) = {}
                  /\ ~HasAttr(suggestions[sid], "locationId")
            /\ suggestions[sid].status = "approved" =>
                  \A i \in 1 .. Len(suggestions[sid].photos) :
                      \/ suggestions[sid].photos[i] \in bucket
                      \/ ApprovedCopies(suggestions[sid].photos[i]) # {}

\* An approve and a reject of S1 ran at the same time and both answered 200:
\* S1 is rejected, carries the locationId of the Location the approve created,
\* and that Location exists.
C28_RejectedWithLocation ==
    /\ mod[1].kind = "approve" /\ mod[1].statusCode = 200
    /\ mod[2].kind = "reject" /\ mod[2].statusCode = 200
    /\ suggestions["S1"].status = "rejected"
    /\ GetAttr(suggestions["S1"], "locationId", "None") = NewLocationId(1)
    /\ HasItem(locations, NewLocationId(1))
    /\ faults = 0

\* An approve and a reject of S1 ran at the same time and both answered 200:
\* S1 is approved, its photo was deleted by the reject before the approve
\* could copy it, and the Location was created without it.
C28_ApprovedWithPhotoDeleted ==
    /\ \E m \in Mods : mod[m].kind = "approve" /\ mod[m].statusCode = 200
    /\ \E m \in Mods : mod[m].kind = "reject" /\ mod[m].statusCode = 200
    /\ ~ModerationInProgress
    /\ suggestions["S1"].status = "approved"
    /\ suggestions["S1"].photos = <<PhotoKey("u1", "a.jpg")>>
    /\ PhotoKey("u1", "a.jpg") \notin bucket
    /\ ApprovedCopies(PhotoKey("u1", "a.jpg")) = {}
    /\ faults = 0

(* Approval of a photo_update, under SpecPhotoUpdate *)

\* The moderator's request m writes the target Location of a photo_update in
\* this step.
WritesTargetLocation(m) ==
    /\ ModAt(m, "approve", "photos")
    /\ mod[m].type = "photo_update"
    /\ mod'[m].pc = "update"

Decorations(location) == GetAttr(location, "decorations", <<>>)

\* C29: when the approval of a photo_update writes the target Location, the
\* Location's tags are the Tag Merge & Deduplicator result of the tags it had
\* and the Submission's detected tags, in some order of enumeration: no tag
\* the Location had is dropped except by the deduplication rules.
C29_ApprovalMergesTags ==
    [][\A m \in Mods :
        WritesTargetLocation(m) =>
            LET existing_items == set(Decorations(locations[mod[m].location_id]))
                new_items == set(GetAttr(mod[m].suggestion, "detectedTags", <<>>))
            IN  \E merged_items \in Arrangements(existing_items \cup new_items) :
                    Decorations(locations'[mod[m].location_id]) =
                        Slice(deduplicate_tags_semantically(merged_items), MAX_TAGS)]_vars

\* An approved photo_update has left the Location with the Submission's tags
\* only: the tag the admin had set, which no rule merges with them, is gone.
C29_ExistingTagsKept ==
    ~ \E sid \in DOMAIN suggestions :
        /\ GetAttr(suggestions[sid], "status", "None") = "approved"
        /\ GetAttr(suggestions[sid], "detectedTags", <<>>) = <<InflatableSnowmen>>
        /\ Decorations(locations["L1"]) = <<InflatableSnowmen>>
        /\ GetAttr(locations["L1"], "photoSubmittedBy", "None") # "None"

(* Analysis enrichment of a Submission, under SpecCap *)

DetectedTags(sid) == GetAttr(suggestions[sid], "detectedTags", <<>>)

NoRepeatedEntry(list) ==
    \A m, n \in DOMAIN list : m # n => list[m] # list[n]

InSortedOrder(list) ==
    \A n \in 1 .. Len(list) - 1 : str_le(list[n], list[n + 1])

\* C31: after any sequence of analysis enrichment steps, a Submission's
\* detectedTags has at most 10 entries, no entry twice, and is in sorted order.
C31_TagsCappedDistinctSorted ==
    \A sid \in DOMAIN suggestions :
        /\ Len(DetectedTags(sid)) <= MAX_TAGS
        /\ NoRepeatedEntry(DetectedTags(sid))
        /\ InSortedOrder(DetectedTags(sid))

\* Two analyses have proposed twelve tags between them and the Submission
\* holds ten of them.
C31_Witness ==
    \E sid \in DOMAIN suggestions :
        /\ Len(DetectedTags(sid)) = MAX_TAGS
        /\ \E a \in AnaSlots : ana[a].pc = "idle"
        /\ invoked = EmptyTable

(* The merge in every enumeration order, under SpecOrder *)

\* C32: the merge of an existing tag set with a proposed one depends only on
\* the two sets: whatever order the union is enumerated in, the deduplicator
\* returns the tags it returned for the order this merge took, also for tags
\* that differ only in letter case or have equal length.
C32_MergeOrderIrrelevant ==
    [][\A a \in AnaSlots :
        (ana[a].pc = "get" /\ ana'[a].pc = "update") =>
            \A order \in list_of(set(ana'[a].merged_items)) :
                deduplicate_tags_semantically(order) =
                    deduplicate_tags_semantically(ana'[a].merged_items)]_vars

\* Two analyses proposed "word signs" and "WORD SIGNS"; the merge kept the
\* capitals, and it would have kept the small letters in the other order.
C32_SmallLettersKept ==
    ~ \E sid \in DOMAIN suggestions :
        /\ DetectedTags(sid) = <<WordSignsUpper>>
        /\ deduplicate_tags_semantically(<<WordSignsUpper, WordSigns>>) = <<WordSigns>>

(* Concurrent analyses of one Submission, under SpecEnrich *)

QualityLevel(item) == quality_levels(GetAttr(item, "displayQuality", "minimal"))

\* The analysis invocation a writes its result in this step, and the write
\* succeeds.
WritesAnalysis(a) ==
    /\ ana[a].pc = "update"
    /\ ana'[a].pc = "idle"
    /\ faults' = faults

AllAnalysesCompleted ==
    /\ invoked = EmptyTable
    /\ \A a \in AnaSlots : ana[a].pc = "idle"

\* C33: a Submission's displayQuality never decreases, and an analysis that
\* judged the photo a valid display leaves it at least as high as the level
\* it reported, so that after all analyses it is the highest level reported.
C33_QualityIsHighestReported ==
    [][/\ \A sid \in DOMAIN suggestions :
            QualityLevel(suggestions'[sid]) >= QualityLevel(suggestions[sid])
       /\ \A a \in AnaSlots :
            (WritesAnalysis(a) /\ ana[a].analysis.is_christmas_display) =>
                QualityLevel(suggestions'[ana[a].suggestion_id]) >=
                    quality_levels(ana[a].analysis.display_quality)]_vars

\* All analyses are over; the only analysis that proposes "inflatable
\* snowmen" reported spectacular, its tag is stored, yet the Submission's
\* displayQuality is moderate.
C33_SpectacularKept ==
    ~ /\ AllAnalysesCompleted
      /\ \E sid \in DOMAIN suggestions :
            /\ InflatableSnowmen \in set(DetectedTags(sid))
            /\ GetAttr(suggestions[sid], "displayQuality", "None") = "moderate"

\* C34: no analysis result is lost: when an analysis writes its result, the
\* Submission's detectedTags is the deduplicated, capped merge of the tags it
\* held just before and the tags the analysis proposed.
C34_NoAnalysisResultLost ==
    [][\A a \in AnaSlots :
        WritesAnalysis(a) =>
            LET sid == ana[a].suggestion_id
                existing_items == set(DetectedTags(sid))
                new_items == set(ana[a].analysis.featured_items)
            IN  \E merged_items \in list_of(existing_items \cup new_items) :
                    GetAttr(suggestions'[sid], "detectedTags", <<>>) =
                        Slice(deduplicate_tags_semantically(merged_items), MAX_TAGS)]_vars

\* All analyses are over; the spectacular analysis was written, but the tag
\* it proposed, which no rule merges with "gingerbread inflatables", is not
\* among the Submission's tags.
C34_SnowmenTagKept ==
    ~ /\ AllAnalysesCompleted
      /\ \E sid \in DOMAIN suggestions :
            /\ GetAttr(suggestions[sid], "displayQuality", "None") = "spectacular"
            /\ DetectedTags(sid) = <<GingerbreadInflatables>>

(* A flagged Submission, under SpecFlagged *)

Flagged(item) == GetAttr(item, "flaggedForReview", FALSE)

\* The moderator's request m reads a Submission in this step.
ReadsSubmission(m, sid) ==
    /\ mod[m].pc = "idle"
    /\ mod'[m].pc # "idle"
    /\ mod'[m].sid = sid

\* C35: an analysis that finds no valid display sets flaggedForReview and
\* blocks nothing: its write leaves the status as it was and stores the
\* merge of the tags it proposed, an approve or a reject of a pending flagged
\* Submission is not refused, and no later step clears the flag.
C35_FlaggedNotBlocked ==
    [][/\ \A a \in AnaSlots :
            (WritesAnalysis(a) /\ ~ana[a].analysis.is_christmas_display) =>
                LET sid == ana[a].suggestion_id IN
                    /\ Flagged(suggestions'[sid])
                    /\ suggestions'[sid].status = suggestions[sid].status
                    /\ set(ana[a].analysis.featured_items) \subseteq set(ana[a].merged_items)
                    /\ suggestions'[sid].detectedTags =
                          Slice(deduplicate_tags_semantically(ana[a].merged_items), MAX_TAGS)
       /\ \A sid \in DOMAIN suggestions :
            Flagged(suggestions[sid]) => Flagged(suggestions'[sid])
       /\ \A m \in Mods, sid \in DOMAIN suggestions :
            (/\ ReadsSubmission(m, sid)
             /\ Flagged(suggestions[sid])
             /\ suggestions[sid].status = "pending") => mod'[m].pc # "done"]_vars

\* A flagged Submission holds the tags of both photos, the display quality
\* the later, valid analysis reported, and has been approved.
C35_Witness ==
    \E sid \in DOMAIN suggestions :
        /\ Flagged(suggestions[sid])
        /\ set(DetectedTags(sid)) = {InflatableSnowmen, GingerbreadInflatables}
        /\ GetAttr(suggestions[sid], "displayQuality", "None") = "impressive"
        /\ suggestions[sid].status = "approved"
        /\ mod[1].statusCode = 200

(* Edits and analyses of a Submission that is approved or rejected, under  *)
(* SpecEdit                                                                *)

Terminal(item) == GetAttr(item, "status", "None") \in {"approved", "rejected"}

\* The admin's edit m, or the analysis a, writes Submission sid in this step.
EditWrites(m, sid) ==
    /\ ModAt(m, "edit", "edit")
    /\ mod'[m].pc = "done"
    /\ mod[m].sid = sid

AnalysisWrites(a, sid) ==
    /\ ana[a].pc = "update"
    /\ ana'[a].pc = "idle"
    /\ ana[a].suggestion_id = sid

\* C36: once a Submission is approved or rejected, no step of an admin edit
\* or of an analysis changes its record, however they interleave with the
\* approve or reject.
C36_TerminalSubmissionUntouched ==
    [][\A sid \in DOMAIN suggestions :
        (/\ Terminal(suggestions[sid])
         /\ \/ \E m \in Mods : EditWrites(m, sid)
            \/ \E a \in AnaSlots : AnalysisWrites(a, sid)) =>
            suggestions'[sid] = suggestions[sid]]_vars

\* The analysis half alone: no analysis write changes the record of an
\* approved or rejected Submission.
C36_AnalysisLeavesTerminalUntouched ==
    [][\A sid \in DOMAIN suggestions, a \in AnaSlots :
        (Terminal(suggestions[sid]) /\ AnalysisWrites(a, sid)) =>
            suggestions'[sid] = suggestions[sid]]_vars

(* The retries of the vision call, under SpecRetry *)

\* The invocation a calls the model in this step.
InvokesModel(a) ==
    /\ ana[a].pc = "analyze"
    /\ ana'[a] # ana[a]

Raised(r) == r.pc = "idle" /\ r.error_code # "None"

\* Each call of the model is at most the fifth for its photo; the call is
\* tried again only after a throttling or service-unavailable error; any
\* other error, and the fifth transient error in a row, is raised.
BoundedRetries ==
    \A a \in AnaSlots :
        InvokesModel(a) =>
            LET error_code == ana'[a].error_code
                retried == ana'[a].pc = "analyze"
            IN  /\ ana[a].attempt + 1 <= max_retries
                /\ retried => /\ error_code \in TransientErrors
                              /\ ana'[a].attempt = ana[a].attempt + 1
                /\ (error_code # "None" /\ error_code \notin TransientErrors) =>
                      Raised(ana'[a])
                /\ (error_code \in TransientErrors /\ ana[a].attempt + 1 = max_retries) =>
                      Raised(ana'[a])
                /\ error_code = "None" => ana'[a].pc = "get"

\* C37: the vision call is retried a bounded number of times, as
\* BoundedRetries says, and the handler always comes to the end of a record
\* it has taken: it is idle again and can take the next one.
C37_RetriesBoundedAndHandlerEnds ==
    /\ [][BoundedRetries]_vars
    /\ \A a \in AnaSlots : (ana[a].pc = "analyze") ~> (ana[a].pc = "idle")

\* The model was called five times for one photo and raised a throttling
\* error each time; the fifth was raised and the handler is idle.
C37_Witness ==
    /\ ana[1].pc = "idle"
    /\ ana[1].attempt = max_retries - 1
    /\ ana[1].error_code = "ThrottlingException"

(* Reports of a Location, under SpecReport *)

ReportsBy(user, location_id) ==
    {k \in DOMAIN feedback :
        /\ feedback[k].type = "report"
        /\ feedback[k].userId = user
        /\ feedback[k].locationId = location_id}

Reporters(location_id) == {user \in Users : ReportsBy(user, location_id) # {}}

\* C38: a user's reports of one Location count once: there is at most one
\* report record per (user, Location), reportCount is no more than the number
\* of users who reported, and with fewer than three such users the Location
\* is not flagged.
C38_ReportsCountOncePerUser ==
    \A location_id \in DOMAIN locations :
        /\ \A user \in Users : Cardinality(ReportsBy(user, location_id)) <= 1
        /\ GetAttr(locations[location_id], "reportCount", 0) <=
              Cardinality(Reporters(location_id))
        /\ Cardinality(Reporters(location_id)) < REPORT_THRESHOLD =>
              locations[location_id].status # "flagged"

\* One user alone has brought Location L1 to the threshold: it is flagged
\* and every report record on it is that user's.
C38_OneUserCannotFlag ==
    ~ /\ locations["L1"].status = "flagged"
      /\ Reporters("L1") = {"u1"}
      /\ \A p \in Slots : req[p].pc \in {"idle", "done"}

----------------------------------------------------------------------------
(* Deleting an entity: what the claims speak of *)

\* The entities a delete request has answered 200 for.
DeletedLocations ==
    {req[p].target : p \in {q \in Slots : /\ req[q].handler = "delete_location"
                                          /\ req[q].pc = "done"
                                          /\ req[q].statusCode = 200}}

DeletedRoutes ==
    {req[p].target : p \in {q \in Slots : /\ req[q].handler = "delete_route"
                                          /\ req[q].pc = "done"
                                          /\ req[q].statusCode = 200}}

\* C39: counter operations never create an entity: whatever the
\* interleaving of react, view and report requests with a delete of the
\* same Location or Route, once every request has finished no record
\* exists under the key of a deleted Location or Route.
C39_NoRecordUnderDeletedKey ==
    Quiescent =>
        /\ \A id \in DeletedLocations : ~HasItem(locations, id)
        /\ \A id \in DeletedRoutes : ~HasItem(routes, id)

----------------------------------------------------------------------------
(* The photo limit: what the claims speak of *)

\* The submit requests that carried more than MAX_PHOTOS photos and have
\* been answered.
AnsweredOverLimit ==
    {s \in SubSlots : /\ sub[s].pc = "done"
                      /\ Len(GetAttr(sub[s].body, "photos", <<>>)) > MAX_PHOTOS}

\* C40: every Submission, new_location and photo_update alike, references
\* at most 3 photos, and a submit request that carries more than 3 photos
\* is rejected and creates no Submission.
C40_AtMostThreePhotos ==
    /\ \A id \in DOMAIN suggestions :
          Len(GetAttr(suggestions[id], "photos", <<>>)) <= MAX_PHOTOS
    /\ \A s \in AnsweredOverLimit :
          /\ sub[s].statusCode >= 400
          /\ ~HasItem(suggestions, NewSuggestionId(s))

====
